---- MODULE Spec2Model ----
(***************************************************************************)
(* The failover dispatcher of node/services (runFunction1 and its          *)
(* wrappers) run by several goroutines against one client manager.         *)
(*                                                                         *)
(* The dispatcher is translated from function-runners.go.  The manager     *)
(* behind the iClientManagerImpl interface (SetPrimaryReady,               *)
(* SetFallbackReady, RecheckFailTimes) and the disconnect classifier       *)
(* isDisconnected are declared in manager.go and called by runFunction1;   *)
(* their bodies follow the specification's sections 4.1, 4.3 and 5.        *)
(*                                                                         *)
(* Spec has two callers and closures that may return anything; SpecC7 has  *)
(* NumProcs callers, a primary that always disconnects and a fallback that *)
(* always succeeds.  SpecC12 starts after an outage of both endpoints,     *)
(* SpecC14 lets the endpoints settle with the primary down and the         *)
(* fallback up, SpecC17 has closures that end with the caller's context.   *)
(* SpecC15 applies runFunction0 and runFunction2 as single calls, SpecC16  *)
(* the contexts of the client bindings, SpecC18 the concurrent-call limit  *)
(* of the service provider.                                                *)
(*                                                                         *)
(* SpecC26 is the wallet of node/wallet/wallet.go from NewWallet on, one   *)
(* step per method call; SpecC28 its GetTransactor copy, SpecC29           *)
(* Parameter.Deserialize of config/parameter.go on string parameters, and  *)
(* SpecC30 the loop of BatchCreateTransactionSubmissions.                  *)
(***************************************************************************)
EXTENDS Naturals, Sequences, FiniteSets, TLC

\* ------------------------------------------------------------------ bounds

\* Number of goroutines that dispatch on the one manager in SpecC7.
NumProcs == 2

\* The clock runs from 0 to MaxTime.
MaxTime == 1

\* reconnectDelay is drawn from 0..MaxDelay.
MaxDelay == 2

\* A dispatch makes at most MaxCalls closure invocations on the primary
\* through the ready branch (the recursion of line 53 is otherwise unbounded).
MaxCalls == 2

\* The two goroutines that dispatch on the one manager in Spec.
Callers == {1, 2}

Roles == {"primary", "fallback"}

\* ------------------------------------------------------------ values, errors

\* The zero value of ReturnType ("var blank ReturnType").
Blank == "blank"

\* What the closure computes from a client: it depends on the client it ran on.
ValOf(role) == IF role = "primary" THEN "valueOfPrimary" ELSE "valueOfFallback"

NilErr == [kind |-> "nil", msg |-> ""]

\* An error made by the closure on the client of a role.
ClosureErr(kind, role) == [kind |-> kind, msg |-> kind \o " error from " \o role]

ErrKinds == {"nil", "app", "disc"}

\* What one closure invocation on a role's client returns with an error of the
\* given kind: a Go function returns a value beside its error, here never the
\* zero value, so that a dispatch that drops it shows.
OutcomeOfKind(role, kind) ==
  [val |-> ValOf(role), err |-> IF kind = "nil" THEN NilErr ELSE ClosureErr(kind, role)]

\* GetClientTypeName() of the execution client manager.
ClientTypeName == "Execution Client"

\* --------------------------------------------------------------------- state

VARIABLES
  fallbackEnabled,   \* IsFallbackEnabled(): fixed at construction
  reconnectDelay,    \* the manager's recheck delay: fixed at construction
  closure,           \* closure[role]: the error kinds the closures may return there
  primaryReady,      \* readiness of the primary role
  fallbackReady,     \* readiness of the fallback role
  primaryFailTime,   \* last recorded failure time of the primary role
  fallbackFailTime,  \* last recorded failure time of the fallback role
  now,               \* the clock
  pc,                \* pc[p]: where goroutine p is in runFunction1
  trace,             \* trace[p]: the manager calls and closure calls of p's dispatch
  ret,               \* ret[p]: what p's dispatch returned
  alone,             \* alone[p]: no other goroutine has stepped since p's dispatch began
  applied            \* one application of a function outside the dispatch steps

vars == <<fallbackEnabled, reconnectDelay, closure, primaryReady,
          fallbackReady, primaryFailTime, fallbackFailTime, now, pc, trace, ret,
          alone, applied>>

\* What no step of a dispatch writes.
config == <<fallbackEnabled, reconnectDelay, closure, applied>>

manager == <<primaryReady, fallbackReady, primaryFailTime, fallbackFailTime>>

\* The goroutines that dispatch on the manager.
Procs == DOMAIN pc

\* No function is being applied beside the dispatches.
NoCall == [fn |-> "none"]

NoRet == [val |-> "none", err |-> [kind |-> "none", msg |-> ""]]

\* One entry of a dispatch's trace.
Event(op, role, val, err) == [op |-> op, role |-> role, val |-> val, err |-> err]

BoolStr(b) == IF b THEN "true" ELSE "false"

\* ------------------------------------------------- the manager (sections 4.1, 4.3)

\* isDisconnected(err): whether the error is a transport-level disconnection.
isDisconnected(err) == err.kind = "disc"

\* The failure time a role holds after Set<Role>Ready(ready) at time t: marking
\* a role not-ready records the failure timestamp.
FailTimeAfterSet(ready, oldFailTime, t) == IF ready THEN oldFailTime ELSE t

\* SetPrimaryReady(ready), one atomic write.
SetPrimaryReady(ready) ==
  /\ primaryReady' = ready
  /\ primaryFailTime' = FailTimeAfterSet(ready, primaryFailTime, now)
  /\ UNCHANGED <<fallbackReady, fallbackFailTime>>

\* SetFallbackReady(ready), one atomic write.
SetFallbackReady(ready) ==
  /\ fallbackReady' = ready
  /\ fallbackFailTime' = FailTimeAfterSet(ready, fallbackFailTime, now)
  /\ UNCHANGED <<primaryReady, primaryFailTime>>

\* Whether RecheckFailTimes at time t flips a role back to ready.
RecheckFlips(ready, failTime, t, delay) == ~ready /\ t - failTime >= delay

\* A pair of facts about the two roles, as the trace records it: which roles
\* one RecheckFailTimes flips, and which it leaves not ready.
RecheckNote(aboutP, aboutF) ==
  IF aboutP /\ aboutF THEN "both"
  ELSE IF aboutP THEN "primary" ELSE IF aboutF THEN "fallback" ELSE "none"

\* ------------------------------------------------- runFunction1, step by step

\* EntryPc without the IsFallbackEnabled test of line 23.
EntryPc_NoFallbackTest(enabled) == "recheck"

\* Line 23: without a fallback the closure runs on the primary at once,
\* otherwise the dispatch goes on to the recheck pass of line 32.
EntryPc(enabled) == IF ~enabled THEN "solo" ELSE "recheck"

\* PrimaryBranch that tries the primary whatever IsPrimaryReady returned.
PrimaryBranch_IgnoresReadiness(ready) == "inPrimary"

\* PrimaryBranch with the test of line 35 inverted.
PrimaryBranch_Inverted(ready) == IF ready THEN "checkFallback" ELSE "inPrimary"

\* Lines 35 and 56: the branch taken on what IsPrimaryReady returned.
PrimaryBranch(ready) == IF ready THEN "inPrimary" ELSE "checkFallback"

\* FallbackBranch that tries the fallback whatever IsFallbackReady returned.
FallbackBranch_IgnoresReadiness(ready) == "inFallback"

\* Lines 57 and 78: the branch taken on what IsFallbackReady returned.
FallbackBranch(ready) == IF ready THEN "inFallback" ELSE "forced"

\* AfterPrimary without the isDisconnected test of line 44: any error fails over.
AfterPrimary_AnyErrorFailsOver(err) == IF err = NilErr THEN "result" ELSE "failover"

\* AfterPrimary without the failover of lines 47-53: a disconnect is returned.
AfterPrimary_NoFailover(err) == IF err = NilErr THEN "result" ELSE "error"

\* Lines 38-53: what the dispatch does with the error of the primary attempt.
AfterPrimary(err) ==
  IF err = NilErr THEN "result"
  ELSE IF ~isDisconnected(err) THEN "error" ELSE "failover"

\* AfterFallback that hands every error of the fallback back to the caller.
AfterFallback_ReturnsDisconnect(err) == IF err = NilErr THEN "result" ELSE "error"

\* AfterFallback that takes every error of the fallback attempt for a disconnect.
AfterFallback_AnyErrorAllFailed(err) == IF err = NilErr THEN "result" ELSE "allFailed"

\* Lines 60-75: what the dispatch does with the error of the fallback attempt.
AfterFallback(err) ==
  IF err = NilErr THEN "result"
  ELSE IF ~isDisconnected(err) THEN "error" ELSE "allFailed"

\* ErrorReturn that hands back what the closure returned beside its error.
ErrorReturn_KeepsValue(out) == out

\* Lines 45 and 67: "return blank, err".
ErrorReturn(out) == [val |-> Blank, err |-> out.err]

\* AllFailedError with the plural "s" forgotten.
AllFailedError_NoPlural(typeName) ==
  [kind |-> "allFailed", msg |-> "all " \o typeName \o " failed"]

\* Line 75: fmt.Errorf("all " + typeName + "s failed").
AllFailedError(typeName) ==
  [kind |-> "allFailed", msg |-> "all " \o typeName \o "s failed"]

\* DirectReturn that keeps the closure's error and drops its result.
DirectReturn_Blank(out) == [val |-> Blank, err |-> out.err]

\* Lines 24 and 82: "return function(m.GetPrimaryClient())".
DirectReturn(out) == out

\* ResultReturn that returns the zero value instead of the result.
ResultReturn_Blank(out) == [val |-> Blank, err |-> NilErr]

\* Lines 40 and 62: "return result, nil".
ResultReturn(out) == [val |-> out.val, err |-> NilErr]

\* The failover without the SetPrimaryReady(false) of line 49.
MarkPrimaryDown_Skipped == UNCHANGED manager

\* Line 49: m.SetPrimaryReady(false).
MarkPrimaryDown == SetPrimaryReady(FALSE)

\* The all-failed return without the SetFallbackReady(false) of line 74.
MarkFallbackDown_Skipped == UNCHANGED manager

\* Line 74: m.SetFallbackReady(false).
MarkFallbackDown == SetFallbackReady(FALSE)

\* What the closure may return on a role's client.
Outcomes(role) == {OutcomeOfKind(role, k) : k \in closure[role]}

\* The closure invocations of a trace on a role's client.
Calls(tr, role) == {i \in 1..Len(tr) : tr[i].op = "Call" /\ tr[i].role = role}

\* A step of goroutine p ends the solitude of every other goroutine's dispatch.
Steps(p) == alone' = [q \in Procs |-> IF q = p THEN alone[p] ELSE FALSE]

Finish(p, r) == pc' = [pc EXCEPT ![p] = "done"] /\ ret' = [ret EXCEPT ![p] = r]

Log(p, evs) == trace' = [trace EXCEPT ![p] = trace[p] \o evs]

\* A caller enters runFunction1 (lines 21-29).
Dispatch(p) ==
  /\ pc[p] \in {"idle", "done"}
  /\ pc' = [pc EXCEPT ![p] = EntryPc(fallbackEnabled)]
  /\ trace' = [trace EXCEPT ![p] = <<>>]
  /\ ret' = [ret EXCEPT ![p] = NoRet]
  /\ alone' = [q \in Procs |-> q = p]
  /\ UNCHANGED <<config, manager, now>>

\* Line 24: the closure's only invocation when no fallback is configured.
Solo(p) ==
  /\ pc[p] = "solo"
  /\ \E out \in Outcomes("primary") :
       /\ Log(p, <<Event("Call", "primary", out.val, out.err)>>)
       /\ Finish(p, DirectReturn(out))
  /\ Steps(p)
  /\ UNCHANGED <<config, manager, now>>

\* Line 32: m.RecheckFailTimes(logger), one atomic pass over both roles.
Recheck(p) ==
  /\ pc[p] = "recheck"
  /\ LET flipP == RecheckFlips(primaryReady, primaryFailTime, now, reconnectDelay)
         flipF == RecheckFlips(fallbackReady, fallbackFailTime, now, reconnectDelay)
     IN /\ primaryReady' = (primaryReady \/ flipP)
        /\ fallbackReady' = (fallbackReady \/ flipF)
        /\ Log(p, <<Event("Recheck", RecheckNote(~primaryReady', ~fallbackReady'),
                            RecheckNote(flipP, flipF), NilErr)>>)
  /\ pc' = [pc EXCEPT ![p] = "checkPrimary"]
  /\ Steps(p)
  /\ UNCHANGED <<config, primaryFailTime, fallbackFailTime, now, ret>>

\* Line 35: m.IsPrimaryReady(); when it is true the closure starts on the primary.
CheckPrimary(p) ==
  /\ pc[p] = "checkPrimary"
  /\ Log(p, <<Event("IsReady", "primary", BoolStr(primaryReady), NilErr)>>)
  /\ pc' = [pc EXCEPT ![p] = PrimaryBranch(primaryReady)]
  /\ Steps(p)
  /\ UNCHANGED <<config, manager, now, ret>>

\* Lines 37-53: the closure returns from the primary.
PrimaryReturns(p) ==
  /\ pc[p] = "inPrimary"
  /\ \E out \in Outcomes("primary") :
       LET call == Event("Call", "primary", out.val, out.err)
           todo == AfterPrimary(out.err)
       IN IF todo = "result"
            THEN /\ Log(p, <<call>>)
                 /\ Finish(p, ResultReturn(out))
                 /\ UNCHANGED manager
          ELSE IF todo = "error"
            THEN /\ Log(p, <<call>>)
                 /\ Finish(p, ErrorReturn(out))
                 /\ UNCHANGED manager
          ELSE /\ Cardinality(Calls(trace[p], "primary")) + 1 < MaxCalls
               /\ MarkPrimaryDown
               /\ Log(p, <<call, Event("SetReady", "primary", "false", NilErr)>>)
               /\ pc' = [pc EXCEPT ![p] = "recheck"]
               /\ UNCHANGED ret
  /\ Steps(p)
  /\ UNCHANGED <<config, now>>

\* Line 57: m.IsFallbackReady(); when it is true the closure starts on the fallback.
CheckFallback(p) ==
  /\ pc[p] = "checkFallback"
  /\ Log(p, <<Event("IsReady", "fallback", BoolStr(fallbackReady), NilErr)>>)
  /\ pc' = [pc EXCEPT ![p] = FallbackBranch(fallbackReady)]
  /\ Steps(p)
  /\ UNCHANGED <<config, manager, now, ret>>

\* Lines 59-75: the closure returns from the fallback.
FallbackReturns(p) ==
  /\ pc[p] = "inFallback"
  /\ \E out \in Outcomes("fallback") :
       LET call == Event("Call", "fallback", out.val, out.err)
           todo == AfterFallback(out.err)
       IN IF todo = "result"
            THEN /\ Log(p, <<call>>)
                 /\ Finish(p, ResultReturn(out))
                 /\ UNCHANGED manager
          ELSE IF todo = "error"
            THEN /\ Log(p, <<call>>)
                 /\ Finish(p, ErrorReturn(out))
                 /\ UNCHANGED manager
          ELSE /\ MarkFallbackDown
               /\ Log(p, <<call, Event("SetReady", "fallback", "false", NilErr)>>)
               /\ Finish(p, [val |-> Blank, err |-> AllFailedError(ClientTypeName)])
  /\ Steps(p)
  /\ UNCHANGED <<config, now>>

\* Line 82: neither role is ready, the closure is forced on the primary.
Forced(p) ==
  /\ pc[p] = "forced"
  /\ \E out \in Outcomes("primary") :
       /\ Log(p, <<Event("Call", "primary", out.val, out.err)>>)
       /\ Finish(p, DirectReturn(out))
  /\ Steps(p)
  /\ UNCHANGED <<config, manager, now>>

\* Time passes.
Tick ==
  /\ now < MaxTime
  /\ now' = now + 1
  /\ UNCHANGED <<config, manager, pc, trace, ret, alone>>

\* ------------------------------------------------------------- specification

\* The manager as constructed: every configured role optimistically ready.
InitManager(callers) ==
  /\ primaryReady = TRUE
  /\ fallbackReady = fallbackEnabled
  /\ primaryFailTime = 0
  /\ fallbackFailTime = 0
  /\ now = 0
  /\ pc = [p \in callers |-> "idle"]
  /\ trace = [p \in callers |-> <<>>]
  /\ ret = [p \in callers |-> NoRet]
  /\ alone = [p \in callers |-> FALSE]

Init ==
  /\ fallbackEnabled \in BOOLEAN
  /\ reconnectDelay \in 0..MaxDelay
  /\ closure = [r \in Roles |-> ErrKinds]
  /\ applied = NoCall
  /\ InitManager(Callers)

Next ==
  \/ Tick
  \/ \E p \in Procs :
       \/ Dispatch(p)
       \/ Solo(p)
       \/ Recheck(p)
       \/ CheckPrimary(p)
       \/ PrimaryReturns(p)
       \/ CheckFallback(p)
       \/ FallbackReturns(p)
       \/ Forced(p)

Spec == Init /\ [][Next]_vars

\* ------------------------------------------- the dead primary, live fallback

\* A manager with a fallback whose closures always get a disconnect error on
\* the primary client and always succeed on the fallback client.
InitC7 ==
  /\ fallbackEnabled = TRUE
  /\ reconnectDelay \in 1..MaxDelay
  /\ closure = [r \in Roles |-> IF r = "primary" THEN {"disc"} ELSE {"nil"}]
  /\ applied = NoCall
  /\ InitManager(1..NumProcs)

\* Time passes, but stays less than reconnectDelay after the last recorded
\* failure of the primary.
TickC7 ==
  /\ ~primaryReady => now + 1 - primaryFailTime < reconnectDelay
  /\ Tick

\* The steps of goroutine p once it is inside runFunction1.
StepC7(p) ==
  \/ Recheck(p)
  \/ CheckPrimary(p)
  \/ PrimaryReturns(p)
  \/ CheckFallback(p)
  \/ FallbackReturns(p)

NextC7 ==
  \/ TickC7
  \/ \E p \in Procs : Dispatch(p)
  \/ \E p \in Procs : StepC7(p)

\* The Go scheduler runs every runnable goroutine and the closure's call on a
\* client returns: a dispatch that can step eventually steps.
SpecC7 == InitC7 /\ [][NextC7]_vars /\ \A p \in 1..NumProcs : WF_vars(StepC7(p))

\* ---------------------------------------------------------------- vocabulary

Done(p) == pc[p] = "done"

IsCall(e, role, kind) == e.op = "Call" /\ e.role = role /\ e.err.kind = kind

IsRead(e, role, ready) == e.op = "IsReady" /\ e.role = role /\ e.val = BoolStr(ready)

\* The outcome a Call entry of a trace records.
OutcomeOf(e) == [val |-> e.val, err |-> e.err]

\* The entries of a trace that write readiness outside the recheck pass.
Marks(tr) == {i \in 1..Len(tr) : tr[i].op = "SetReady"}

\* The entries of a trace that consult or touch the fallback role.
FallbackTouches(tr) ==
  {i \in 1..Len(tr) : tr[i].op = "Recheck" \/ tr[i].role = "fallback"}

\* The roles the recheck pass of a trace entry flipped, and those it left not ready.
Flipped(e) == IF e.val = "both" THEN Roles ELSE {e.val} \cap Roles

LeftDown(e) == IF e.role = "both" THEN Roles ELSE {e.role} \cap Roles

\* Goroutine p returns from its dispatch in this step.
Returns(p) == pc[p] # "done" /\ pc'[p] = "done"

\* ------------------------------------------------------------------------ C1

\* C1: with a fallback configured and both roles found ready, a dispatch whose
\* closure returns a disconnect error on the primary and then succeeds on the
\* fallback returns the fallback's result with a nil error; when no other
\* dispatch ran meanwhile, primary readiness is then false and fallback
\* readiness still true.
C1_FailoverToFallback ==
  \A p \in Procs :
    ( /\ Done(p)
      /\ fallbackEnabled
      /\ Len(trace[p]) >= 3
      /\ IsRead(trace[p][2], "primary", TRUE)
      /\ IsCall(trace[p][3], "primary", "disc")
      /\ IsCall(trace[p][Len(trace[p])], "fallback", "nil") )
    => /\ ret[p] = [val |-> ValOf("fallback"), err |-> NilErr]
       /\ \A i \in Calls(trace[p], "primary") : IsCall(trace[p][i], "primary", "disc")
       /\ Cardinality(Calls(trace[p], "fallback")) = 1
       /\ alone[p] => (~primaryReady /\ fallbackReady)

C1_Witness ==
  \E p \in Procs :
    /\ Done(p) /\ fallbackEnabled /\ alone[p]
    /\ Len(trace[p]) = 8
    /\ IsRead(trace[p][2], "primary", TRUE)
    /\ IsCall(trace[p][3], "primary", "disc")
    /\ IsRead(trace[p][7], "fallback", TRUE)
    /\ IsCall(trace[p][8], "fallback", "nil")
    /\ ret[p].err = NilErr

\* ------------------------------------------------------------------------ C2

\* C2: with a fallback configured and the primary found ready, an application
\* error of the closure on the primary is returned as it is, the closure is not
\* invoked on the fallback and the dispatch marks no role (state part: the
\* returning step leaves readiness and failure times alone), whatever the
\* fallback readiness.
C2_ReturnStep(p) ==
  ( /\ pc[p] = "inPrimary"
    /\ Returns(p)
    /\ ret'[p].err.kind = "app" )
  => /\ UNCHANGED manager
     /\ ret'[p].err = ClosureErr("app", "primary")
     /\ Calls(trace'[p], "fallback") = {}

C2_AppErrorNoFailover ==
  /\ [] \A p \in Procs :
         ( /\ Done(p)
           /\ fallbackEnabled
           /\ Len(trace[p]) >= 3
           /\ IsRead(trace[p][2], "primary", TRUE)
           /\ IsCall(trace[p][3], "primary", "app") )
         => /\ Len(trace[p]) = 3
            /\ ret[p].err = trace[p][3].err
            /\ Calls(trace[p], "fallback") = {}
            /\ Marks(trace[p]) = {}
  /\ [][\A p \in Procs : C2_ReturnStep(p)]_vars

C2_Witness ==
  \E p \in Procs :
    /\ Done(p) /\ fallbackEnabled /\ alone[p]
    /\ Len(trace[p]) = 3
    /\ IsCall(trace[p][3], "primary", "app")
    /\ ret[p].err = ClosureErr("app", "primary")
    /\ ~fallbackReady

\* ------------------------------------------------------------------------ C3

\* C3: with a fallback configured and both roles found ready, a dispatch whose
\* closure returns a disconnect error on the primary and then on the fallback
\* returns the error "all <clientTypeName>s failed", which is neither
\* endpoint's error; when no other dispatch ran meanwhile both roles are then
\* not ready.
C3_AllFailed ==
  \A p \in Procs :
    ( /\ Done(p)
      /\ fallbackEnabled
      /\ Len(trace[p]) >= 3
      /\ IsRead(trace[p][2], "primary", TRUE)
      /\ IsCall(trace[p][3], "primary", "disc")
      /\ \E i \in Calls(trace[p], "fallback") : IsCall(trace[p][i], "fallback", "disc") )
    => /\ ret[p].err.kind = "allFailed"
       /\ ret[p].err.msg = "all Execution Clients failed"
       /\ \A i \in 1..Len(trace[p]) : trace[p][i].err # ret[p].err
       /\ ret[p].val = Blank
       /\ alone[p] => (~primaryReady /\ ~fallbackReady)

C3_Witness ==
  \E p \in Procs :
    /\ Done(p) /\ fallbackEnabled /\ alone[p]
    /\ Len(trace[p]) = 9
    /\ IsCall(trace[p][3], "primary", "disc")
    /\ IsCall(trace[p][8], "fallback", "disc")
    /\ ret[p].err.kind = "allFailed"
    /\ ~primaryReady /\ ~fallbackReady

\* ------------------------------------------------------------------------ C4

\* C4: without a fallback every dispatch invokes the closure exactly once, on
\* the primary, and returns its result unchanged when there is no error; there
\* is no recheck pass and the manager's readiness and failure times stay as
\* constructed.
C4_NoFallbackPassThrough ==
  /\ [] (~fallbackEnabled =>
           /\ \A p \in Procs :
                Done(p) =>
                  /\ Len(trace[p]) = 1
                  /\ trace[p][1].op = "Call" /\ trace[p][1].role = "primary"
                  /\ trace[p][1].err = NilErr => ret[p] = OutcomeOf(trace[p][1])
           /\ \A p \in Procs : \A i \in 1..Len(trace[p]) : trace[p][i].op = "Call")
  /\ [][~fallbackEnabled => UNCHANGED manager]_vars

C4_Witness ==
  \E p \in Procs :
    /\ ~fallbackEnabled /\ Done(p)
    /\ IsCall(trace[p][1], "primary", "nil")
    /\ ret[p] = [val |-> ValOf("primary"), err |-> NilErr]
    /\ now > 0

\* ------------------------------------------------------------------------ C5

\* C5: without a fallback, a disconnect error of the closure on the primary is
\* returned as it is after that one invocation (no retry), and the dispatch
\* neither reads fallback readiness, nor gets the fallback client, nor sets
\* fallback readiness.
C5_NoFallbackDisconnect ==
  \A p \in Procs :
    ( /\ ~fallbackEnabled
      /\ Done(p)
      /\ \E i \in 1..Len(trace[p]) : IsCall(trace[p][i], "primary", "disc") )
    => /\ ret[p].err = ClosureErr("disc", "primary")
       /\ Cardinality(Calls(trace[p], "primary")) = 1
       /\ Len(trace[p]) = 1
       /\ FallbackTouches(trace[p]) = {}

C5_Witness ==
  \E p \in Procs :
    /\ ~fallbackEnabled /\ Done(p)
    /\ IsCall(trace[p][1], "primary", "disc")
    /\ ret[p].err = ClosureErr("disc", "primary")

\* ------------------------------------------------------------------------ C6

\* C6: with a fallback configured, a dispatch that after its recheck pass finds
\* neither role ready invokes the closure exactly once, on the primary, returns
\* what that invocation produced (result and error, a disconnect error
\* included), does not invoke the fallback and writes no readiness.
C6_ForcedStep(p) ==
  (pc[p] = "forced" /\ Returns(p)) =>
    /\ UNCHANGED manager
    /\ ret'[p] = OutcomeOf(trace'[p][Len(trace'[p])])

C6_ForcedPrimary ==
  /\ [] \A p \in Procs :
         ( /\ Done(p)
           /\ fallbackEnabled
           /\ Len(trace[p]) >= 3
           /\ IsRead(trace[p][2], "primary", FALSE)
           /\ IsRead(trace[p][3], "fallback", FALSE) )
         => /\ Len(trace[p]) = 4
            /\ trace[p][4].op = "Call" /\ trace[p][4].role = "primary"
            /\ ret[p] = OutcomeOf(trace[p][4])
            /\ Calls(trace[p], "fallback") = {}
            /\ Marks(trace[p]) = {}
  /\ [][\A p \in Procs : C6_ForcedStep(p)]_vars

C6_Witness ==
  \E p \in Procs :
    /\ Done(p) /\ fallbackEnabled /\ alone[p]
    /\ Len(trace[p]) = 4
    /\ IsRead(trace[p][2], "primary", FALSE)
    /\ IsRead(trace[p][3], "fallback", FALSE)
    /\ IsCall(trace[p][4], "primary", "disc")
    /\ ret[p] = [val |-> ValOf("primary"), err |-> ClosureErr("disc", "primary")]
    /\ ~primaryReady /\ ~fallbackReady

\* ------------------------------------------------------------------------ C8

\* Goroutine p runs its recheck pass in this step.
Rechecks(p) == pc[p] = "recheck" /\ pc'[p] = "checkPrimary"

\* C8: a recheck pass that runs less than reconnectDelay after a not-ready
\* role's recorded failure leaves the role not ready, a role read as not ready
\* is not tried through its ready branch, and no step flips a role back to
\* ready earlier than reconnectDelay after its recorded failure.
C8_Step ==
  /\ \A p \in Procs :
       /\ ( /\ Rechecks(p)
            /\ ~primaryReady
            /\ now - primaryFailTime < reconnectDelay ) => ~primaryReady'
       /\ ( /\ Rechecks(p)
            /\ ~fallbackReady
            /\ now - fallbackFailTime < reconnectDelay ) => ~fallbackReady'
       /\ (pc[p] = "checkPrimary" /\ ~primaryReady) => pc'[p] # "inPrimary"
       /\ (pc[p] = "checkFallback" /\ ~fallbackReady) => pc'[p] # "inFallback"
  /\ (~primaryReady /\ primaryReady') => now - primaryFailTime >= reconnectDelay
  /\ (~fallbackReady /\ fallbackReady') => now - fallbackFailTime >= reconnectDelay

C8_NoEarlyRecheck ==
  /\ [][C8_Step]_vars
  /\ [] \A p \in Procs : \A i \in 1..Len(trace[p]) :
         (alone[p] /\ trace[p][i].op = "Recheck") =>
           /\ ("primary" \in LeftDown(trace[p][i]) /\ i + 1 <= Len(trace[p])) =>
                IsRead(trace[p][i + 1], "primary", FALSE)
           /\ ("fallback" \in LeftDown(trace[p][i]) /\ i + 2 <= Len(trace[p])) =>
                ~IsRead(trace[p][i + 2], "fallback", TRUE)

\* The primary failed one tick ago, the delay is two ticks, and a dispatch that
\* ran alone has rechecked and passed the primary over.
C8_Witness ==
  \E p \in Procs :
    /\ alone[p]
    /\ reconnectDelay = 2
    /\ ~primaryReady
    /\ now - primaryFailTime = 1
    /\ Len(trace[p]) = 2
    /\ trace[p][1].op = "Recheck" /\ Flipped(trace[p][1]) = {}
    /\ "primary" \in LeftDown(trace[p][1])
    /\ IsRead(trace[p][2], "primary", FALSE)
    /\ pc[p] = "checkFallback"

\* ------------------------------------------------------------------------ C9

\* C9 as stated, for either role: a dispatch that ran alone and whose first
\* recheck pass marked a role ready again has probed that role, that is, has
\* invoked the closure on its client after reading it ready.
C9_AsStated ==
  \A p \in Procs : \A r \in Roles :
    ( /\ alone[p]
      /\ Done(p)
      /\ fallbackEnabled
      /\ r \in Flipped(trace[p][1]) )
    => \E i \in Calls(trace[p], r) : IsRead(trace[p][i - 1], r, TRUE)

C9_Step ==
  /\ \A p \in Procs :
       /\ ( /\ Rechecks(p)
            /\ ~primaryReady
            /\ now - primaryFailTime >= reconnectDelay ) => primaryReady'
       /\ ( /\ Rechecks(p)
            /\ ~fallbackReady
            /\ now - fallbackFailTime >= reconnectDelay ) => fallbackReady'
       /\ (pc[p] = "inPrimary" /\ pc'[p] = "recheck") =>
            /\ IsCall(trace'[p][Len(trace'[p]) - 1], "primary", "disc")
            /\ ~primaryReady'
            /\ primaryFailTime' = now
       /\ (pc[p] = "inFallback" /\ Returns(p) /\ ret'[p].err.kind = "allFailed") =>
            /\ IsCall(trace'[p][Len(trace'[p]) - 1], "fallback", "disc")
            /\ ~fallbackReady'
            /\ fallbackFailTime' = now
  /\ (~primaryReady /\ primaryReady') => now - primaryFailTime >= reconnectDelay
  /\ (~fallbackReady /\ fallbackReady') => now - fallbackFailTime >= reconnectDelay

\* C9, amended: a recheck pass at least reconnectDelay after a not-ready role's
\* recorded failure marks the role ready again.  A dispatch that runs alone
\* then probes the primary with one closure invocation in that pass; the
\* fallback is probed, at most once in a dispatch, only after the primary was
\* read not ready in the same pass.  A probe that returns a disconnect error
\* marks its role not ready at once with the current time as failure time, and
\* the role is not marked ready again before reconnectDelay has passed since.
C9_ProbeAfterDelay ==
  /\ [][C9_Step]_vars
  /\ [] \A p \in Procs : \A i \in 1..Len(trace[p]) :
         /\ ( /\ alone[p]
              /\ trace[p][i].op = "Recheck"
              /\ "primary" \in Flipped(trace[p][i]) )
            => /\ i + 1 <= Len(trace[p]) => IsRead(trace[p][i + 1], "primary", TRUE)
               /\ i + 2 <= Len(trace[p]) =>
                    trace[p][i + 2].op = "Call" /\ trace[p][i + 2].role = "primary"
         /\ (trace[p][i].op = "Call" /\ trace[p][i].role = "primary" /\ i > 1) =>
              \/ IsRead(trace[p][i - 1], "primary", TRUE) /\ trace[p][i - 2].op = "Recheck"
              \/ IsRead(trace[p][i - 1], "fallback", FALSE)
         /\ (trace[p][i].op = "Call" /\ trace[p][i].role = "fallback") =>
              /\ IsRead(trace[p][i - 1], "fallback", TRUE)
              /\ IsRead(trace[p][i - 2], "primary", FALSE)
              /\ Cardinality(Calls(trace[p], "fallback")) = 1

\* A dispatch that ran alone marked the primary ready again, probed it once,
\* got a disconnect error and marked it not ready with the current time.
C9_Witness ==
  \E p \in Procs :
    /\ alone[p]
    /\ pc[p] = "recheck"
    /\ reconnectDelay > 0
    /\ Len(trace[p]) = 4
    /\ "primary" \in Flipped(trace[p][1])
    /\ IsRead(trace[p][2], "primary", TRUE)
    /\ IsCall(trace[p][3], "primary", "disc")
    /\ trace[p][4].op = "SetReady"
    /\ ~primaryReady
    /\ primaryFailTime = now

\* ----------------------------------------------------------------------- C10

\* C10 as stated, for a manager with a fallback: a dispatch never returns a
\* disconnect error of the closure; its error is nil, an application error or
\* the all-failed error.
C10_AsStated ==
  \A p \in Procs :
    (Done(p) /\ fallbackEnabled) => ret[p].err.kind \in {"nil", "app", "allFailed"}

\* C10, amended: every non-nil error a dispatch on a manager with a fallback
\* returns is the all-failed error, or an application error as the last closure
\* invocation returned it, or the error (a disconnect error included) of the
\* forced attempt on the primary made when neither role was read ready; a
\* disconnect error comes back only from that forced attempt.
C10_ReturnedErrors ==
  \A p \in Procs :
    (Done(p) /\ fallbackEnabled /\ ret[p].err # NilErr) =>
      LET n == Len(trace[p]) IN
        \/ /\ ret[p].err = AllFailedError(ClientTypeName)
           /\ IsCall(trace[p][n - 1], "fallback", "disc")
        \/ /\ ret[p].err.kind = "app"
           /\ trace[p][n].op = "Call"
           /\ ret[p].err = trace[p][n].err
        \/ /\ ret[p].err.kind = "disc"
           /\ IsCall(trace[p][n], "primary", "disc")
           /\ ret[p].err = trace[p][n].err
           /\ IsRead(trace[p][n - 1], "fallback", FALSE)
           /\ IsRead(trace[p][n - 2], "primary", FALSE)

C10_Witness ==
  \E p \in Procs :
    /\ Done(p) /\ fallbackEnabled
    /\ ret[p].err = ClosureErr("disc", "primary")
    /\ IsRead(trace[p][Len(trace[p]) - 1], "fallback", FALSE)

\* ------------------------------------------------------------------------ C7

InFlight(p) == pc[p] \notin {"idle", "done"}

\* C7: with concurrent dispatches on a manager whose closures always get a
\* disconnect error on the primary and always succeed on the fallback, and
\* less than reconnectDelay passing after the primary's last failure, under
\* every interleaving every dispatch that returned returned the fallback's
\* result with a nil error, no dispatch in flight is ever blocked, every
\* dispatch in flight returns, and when all have returned the primary is not
\* ready.
C7_ConcurrentFailover ==
  /\ [] \A p \in Procs : Done(p) => ret[p] = [val |-> ValOf("fallback"), err |-> NilErr]
  /\ [] ((\A p \in Procs : Done(p)) => ~primaryReady)
  /\ [] \A p \in Procs : InFlight(p) => ENABLED StepC7(p)
  /\ \A p \in 1..NumProcs : InFlight(p) ~> Done(p)

\* All dispatches have returned and each of them saw the primary disconnect
\* itself: they all read the primary ready before any of them marked it.
C7_Witness ==
  /\ \A p \in Procs :
       /\ Done(p)
       /\ ret[p].err = NilErr
       /\ \E i \in 1..Len(trace[p]) : IsCall(trace[p][i], "primary", "disc")
  /\ ~primaryReady

\* ----------------------------------------------------------------------- C11

\* C11 as stated: a dispatch returns the all-failed error only when, within
\* that dispatch, the closure was invoked on the primary and on the fallback
\* and both invocations returned disconnect errors.
C11_AsStated ==
  \A p \in Procs :
    (Done(p) /\ ret[p].err.kind = "allFailed") =>
      /\ \E i \in Calls(trace[p], "primary") : IsCall(trace[p][i], "primary", "disc")
      /\ \E i \in Calls(trace[p], "fallback") : IsCall(trace[p][i], "fallback", "disc")

\* C11, amended: a dispatch returns the all-failed error only when its last
\* steps were a read of the primary as not ready, a read of the fallback as
\* ready, one invocation of the closure on the fallback that returned a
\* disconnect error and the marking of the fallback as not ready; every
\* invocation on the primary in that dispatch, if there was one, returned a
\* disconnect error, and no invocation returned an application error.  The
\* primary need not have been tried in that dispatch.
C11_AllFailedOnlyAfterFallbackDisconnect ==
  \A p \in Procs :
    (Done(p) /\ ret[p].err.kind = "allFailed") =>
      LET tr == trace[p]
          n == Len(tr)
      IN /\ n >= 5
         /\ IsRead(tr[n - 3], "primary", FALSE)
         /\ IsRead(tr[n - 2], "fallback", TRUE)
         /\ IsCall(tr[n - 1], "fallback", "disc")
         /\ tr[n].op = "SetReady" /\ tr[n].role = "fallback" /\ tr[n].val = "false"
         /\ Calls(tr, "fallback") = {n - 1}
         /\ \A i \in Calls(tr, "primary") : IsCall(tr[i], "primary", "disc")
         /\ ret[p] = [val |-> Blank, err |-> AllFailedError(ClientTypeName)]

\* A dispatch returned the all-failed error without having invoked the closure
\* on the primary: the primary was read not ready, the fallback disconnected.
C11_Witness ==
  \E p \in Procs :
    /\ Done(p)
    /\ ret[p].err.kind = "allFailed"
    /\ Calls(trace[p], "primary") = {}
    /\ \E i \in Calls(trace[p], "fallback") : IsCall(trace[p][i], "fallback", "disc")

\* ----------------------------------------------------------------------- C12

\* A manager with a fallback after an outage of both endpoints: both roles are
\* marked not ready, each with a failure time in the past, no dispatch is in
\* flight, and from now on the closure succeeds on both clients.
InitC12 ==
  /\ fallbackEnabled = TRUE
  /\ reconnectDelay \in 0..MaxDelay
  /\ closure = [r \in Roles |-> {"nil"}]
  /\ applied = NoCall
  /\ primaryReady = FALSE
  /\ fallbackReady = FALSE
  /\ now \in 0..MaxTime
  /\ primaryFailTime \in 0..now
  /\ fallbackFailTime \in 0..now
  /\ pc = [p \in 1..NumProcs |-> "idle"]
  /\ trace = [p \in 1..NumProcs |-> <<>>]
  /\ ret = [p \in 1..NumProcs |-> NoRet]
  /\ alone = [p \in 1..NumProcs |-> FALSE]

\* The steps of goroutine p once it is inside runFunction1 with a fallback.
StepC12(p) ==
  \/ Recheck(p)
  \/ CheckPrimary(p)
  \/ PrimaryReturns(p)
  \/ CheckFallback(p)
  \/ FallbackReturns(p)
  \/ Forced(p)

\* Some caller enters runFunction1.
IssuesDispatch == \E p \in 1..NumProcs : Dispatch(p)

NextC12 ==
  \/ Tick
  \/ IssuesDispatch
  \/ \E p \in Procs : StepC12(p)

\* The clock advances, the Go scheduler runs every runnable goroutine and the
\* closure's call on a client returns.
SpecC12 ==
  /\ InitC12
  /\ [][NextC12]_vars
  /\ WF_vars(Tick)
  /\ \A p \in 1..NumProcs : WF_vars(StepC12(p))

\* What C12 asks of one step: a recheck pass that runs reconnectDelay or more
\* after the primary's recorded failure marks the primary ready, and a primary
\* that is ready stays ready.
C12_Step ==
  /\ \A p \in Procs :
       (Rechecks(p) /\ now - primaryFailTime >= reconnectDelay) => primaryReady'
  /\ primaryReady => primaryReady'

\* C12: starting with both roles marked not ready and the closure succeeding on
\* both clients from then on, every dispatch that returns returns the result
\* of its last closure invocation with a nil error (a dispatch that read both
\* roles not ready returns the primary's result, none returns the all-failed
\* error), a dispatch whose recheck pass runs once reconnectDelay has elapsed
\* since the primary's recorded failure sets primary readiness back to true,
\* and when callers keep dispatching and the delay lies within the clock's
\* range the primary does become ready again.
C12_RecoversFromNeitherReady ==
  /\ [] \A p \in Procs :
          Done(p) =>
            /\ ret[p].err = NilErr
            /\ ret[p] = OutcomeOf(trace[p][Len(trace[p])])
            /\ trace[p][Len(trace[p])].op = "Call"
            /\ ret[p].val \in {ValOf(r) : r \in Roles}
            /\ (\E i \in 1..Len(trace[p]) : IsRead(trace[p][i], "fallback", FALSE))
                 => ret[p].val = ValOf("primary")
  /\ [][C12_Step]_vars
  /\ ( /\ primaryFailTime + reconnectDelay <= MaxTime
       /\ []<><<IssuesDispatch>>_vars ) => <>primaryReady

\* One dispatch was forced on the primary while both roles were not ready and
\* succeeded, and another, whose recheck pass marked the primary ready again,
\* succeeded on the primary through its ready branch.
C12_Witness ==
  \E p, q \in Procs :
    /\ Done(p) /\ Done(q)
    /\ \E i \in 1..Len(trace[p]) : IsRead(trace[p][i], "fallback", FALSE)
    /\ ret[p] = [val |-> ValOf("primary"), err |-> NilErr]
    /\ trace[q][1].op = "Recheck" /\ "primary" \in Flipped(trace[q][1])
    /\ IsRead(trace[q][2], "primary", TRUE)
    /\ ret[q] = [val |-> ValOf("primary"), err |-> NilErr]

\* ----------------------------------------------------------------------- C13

\* C13: within one dispatch the closure never runs on the primary and on the
\* fallback at once.  While it runs on the fallback, every invocation on the
\* primary in that dispatch has returned a disconnect error and was followed by
\* the marking of the primary, and the dispatch last read the primary not
\* ready and the fallback ready; while it runs on the primary (through the
\* ready branch or forced) no invocation on the fallback has been made in that
\* dispatch; and a fallback invocation is the last invocation of its dispatch.
C13_FallbackAfterPrimary ==
  \A p \in Procs :
    LET tr == trace[p]
        n == Len(tr)
    IN /\ pc[p] = "inFallback" =>
            /\ n >= 3
            /\ IsRead(tr[n - 1], "primary", FALSE)
            /\ IsRead(tr[n], "fallback", TRUE)
            /\ Calls(tr, "fallback") = {}
            /\ \A i \in Calls(tr, "primary") :
                 /\ IsCall(tr[i], "primary", "disc")
                 /\ tr[i + 1].op = "SetReady" /\ tr[i + 1].role = "primary"
       /\ pc[p] \in {"inPrimary", "forced", "solo"} => Calls(tr, "fallback") = {}
       /\ \A j \in Calls(tr, "fallback") :
            /\ \A i \in Calls(tr, "primary") : i < j /\ IsCall(tr[i], "primary", "disc")
            /\ IsRead(tr[j - 2], "primary", FALSE)

\* The closure runs on the fallback after its invocation on the primary, in
\* the same dispatch, returned a disconnect error.
C13_Witness ==
  \E p \in Procs :
    /\ pc[p] = "inFallback"
    /\ \E i \in Calls(trace[p], "primary") : IsCall(trace[p][i], "primary", "disc")

\* ----------------------------------------------------------------------- C14

\* The endpoints with the primary disconnected and the fallback healthy.
PrimaryDownFallbackUp ==
  [r \in Roles |-> IF r = "primary" THEN {"disc"} ELSE {"nil"}]

\* The endpoints settle, while no dispatch is in flight: from now on every
\* closure gets a disconnect error on the primary client and succeeds on the
\* fallback client.  The manager keeps the readiness state it is in, and the
\* callers' earlier results are forgotten.
EndpointsSettle ==
  /\ closure # PrimaryDownFallbackUp
  /\ \A p \in Procs : pc[p] \in {"idle", "done"}
  /\ closure' = PrimaryDownFallbackUp
  /\ pc' = [p \in Procs |-> "idle"]
  /\ trace' = [p \in Procs |-> <<>>]
  /\ ret' = [p \in Procs |-> NoRet]
  /\ alone' = [p \in Procs |-> FALSE]
  /\ UNCHANGED <<fallbackEnabled, reconnectDelay, applied, manager, now>>

\* A manager constructed with a fallback, and closures that may return anything.
InitC14 ==
  /\ fallbackEnabled = TRUE
  /\ reconnectDelay \in 0..MaxDelay
  /\ closure = [r \in Roles |-> ErrKinds]
  /\ applied = NoCall
  /\ InitManager(Callers)

NextC14 ==
  \/ Tick
  \/ EndpointsSettle
  \/ \E p \in Procs : Dispatch(p)
  \/ \E p \in Procs : StepC12(p)

SpecC14 == InitC14 /\ [][NextC14]_vars

Arg1Of(role) == "arg1Of" \o role

Arg2Of(role) == "arg2Of" \o role

ArgValues == {Arg1Of(r) : r \in Roles} \cup {Arg2Of(r) : r \in Roles} \cup {Blank}

\* Lines 95-98 and 101-104: the struct "out" with its two fields.
OutStruct(arg1, arg2) == arg1 \o "," \o arg2

\* result.arg1 and result.arg2; the fields of the zero struct are zero values.
FieldArg1(v) ==
  IF v = Blank THEN Blank
  ELSE CHOOSE a \in ArgValues : \E b \in ArgValues : OutStruct(a, b) = v

FieldArg2(v) ==
  IF v = Blank THEN Blank
  ELSE CHOOSE b \in ArgValues : \E a \in ArgValues : OutStruct(a, b) = v

\* The three shapes of closure, from the error kind each returns per client.
Function0(kinds) == [client \in Roles |-> OutcomeOfKind(client, kinds[client]).err]

Function1(kinds) == [client \in Roles |-> OutcomeOfKind(client, kinds[client])]

Function2(kinds) ==
  [client \in Roles |-> [arg1 |-> Arg1Of(client), arg2 |-> Arg2Of(client),
                          err |-> OutcomeOfKind(client, kinds[client]).err]]

\* Lines 86-88: the closure runFunction0 hands to runFunction1.
Closure0(function) == [client \in Roles |-> [val |-> Blank, err |-> function[client]]]

\* Closure2 that returns a nil error whatever the function returned.
Closure2_SwallowsError(function) ==
  [client \in Roles |->
     [val |-> OutStruct(function[client].arg1, function[client].arg2), err |-> NilErr]]

\* Lines 99-105: the closure runFunction2 hands to runFunction1.
Closure2(function) ==
  [client \in Roles |->
     [val |-> OutStruct(function[client].arg1, function[client].arg2),
      err |-> function[client].err]]

\* RecheckFailTimes on a manager value.
RecheckFailTimes(m) ==
  [m EXCEPT
     !.primaryReady = @ \/ RecheckFlips(@, m.primaryFailTime, m.now, m.reconnectDelay),
     !.fallbackReady = @ \/ RecheckFlips(@, m.fallbackFailTime, m.now, m.reconnectDelay)]

\* Set<Role>Ready(false) on a manager value.
MarkedDown(m, role) ==
  IF role = "primary"
    THEN [m EXCEPT !.primaryReady = FALSE,
                   !.primaryFailTime = FailTimeAfterSet(FALSE, @, m.now)]
    ELSE [m EXCEPT !.fallbackReady = FALSE,
                   !.fallbackFailTime = FailTimeAfterSet(FALSE, @, m.now)]

\* What a runner leaves behind: what it returned, the manager, and in order
\* the readiness reads, the closure invocations and the readiness writes.
Ran(r, m, log) == [ret |-> r, m |-> m, log |-> log]

Invoked(role, function) == Event("Call", role, "", function[role].err)

WroteDown(role) == Event("SetReady", role, "false", NilErr)

ReadReady(role, ready) == Event("IsReady", role, BoolStr(ready), NilErr)

RECURSIVE runFunction1(_, _, _)
\* Lines 21-83.  The recursion of line 53 is cut after MaxCalls invocations on
\* the primary, with NoRet for a dispatch that has not returned.
runFunction1(m, function, log) ==
  IF EntryPc(m.fallbackEnabled) = "solo"
    THEN Ran(DirectReturn(function["primary"]), m,
             Append(log, Invoked("primary", function)))
  ELSE
    LET m1 == RecheckFailTimes(m)
        log1 == Append(log, ReadReady("primary", m1.primaryReady))
    IN IF PrimaryBranch(m1.primaryReady) = "inPrimary"
         THEN LET out == function["primary"]
                  todo == AfterPrimary(out.err)
                  log2 == Append(log1, Invoked("primary", function))
              IN IF todo = "result" THEN Ran(ResultReturn(out), m1, log2)
                 ELSE IF todo = "error" THEN Ran(ErrorReturn(out), m1, log2)
                 ELSE IF Cardinality(Calls(log2, "primary")) >= MaxCalls
                   THEN Ran(NoRet, m1, log2)
                 ELSE runFunction1(MarkedDown(m1, "primary"), function,
                                   Append(log2, WroteDown("primary")))
       ELSE
         LET log2 == Append(log1, ReadReady("fallback", m1.fallbackReady))
         IN IF FallbackBranch(m1.fallbackReady) = "inFallback"
              THEN LET out == function["fallback"]
                       todo == AfterFallback(out.err)
                       log3 == Append(log2, Invoked("fallback", function))
                   IN IF todo = "result" THEN Ran(ResultReturn(out), m1, log3)
                      ELSE IF todo = "error" THEN Ran(ErrorReturn(out), m1, log3)
                      ELSE Ran([val |-> Blank, err |-> AllFailedError(ClientTypeName)],
                               MarkedDown(m1, "fallback"),
                               Append(log3, WroteDown("fallback")))
            ELSE Ran(DirectReturn(function["primary"]), m1,
                     Append(log2, Invoked("primary", function)))

\* Lines 85-91.
runFunction0(m, function) ==
  LET r == runFunction1(m, Closure0(function), <<>>)
  IN [err |-> r.ret.err, m |-> r.m, log |-> r.log]

\* Lines 93-107.
runFunction2(m, function) ==
  LET r == runFunction1(m, Closure2(function), <<>>)
  IN IF r.ret = NoRet
       THEN [arg1 |-> NoRet.val, arg2 |-> NoRet.val, err |-> NoRet.err,
             m |-> r.m, log |-> r.log]
     ELSE [arg1 |-> FieldArg1(r.ret.val), arg2 |-> FieldArg2(r.ret.val),
           err |-> r.ret.err, m |-> r.m, log |-> r.log]

\* The managers a runner may be called on: any readiness of the two roles, any
\* failure times in the past.
Managers ==
  [fallbackEnabled : BOOLEAN, reconnectDelay : 0..MaxDelay,
   primaryReady : BOOLEAN, fallbackReady : BOOLEAN,
   primaryFailTime : 0..MaxTime, fallbackFailTime : 0..MaxTime, now : 0..MaxTime]

\* A caller is about to call runFunction0 or runFunction2 with a closure that
\* returns an error of some kind on each client.
InitC15 ==
  /\ \E fn \in {"runFunction0", "runFunction2"}, m \in Managers,
        kinds \in [Roles -> ErrKinds] :
       /\ m.primaryFailTime <= m.now /\ m.fallbackFailTime <= m.now
       /\ ~m.fallbackEnabled => m.primaryReady /\ ~m.fallbackReady
       /\ applied = [fn |-> fn, stage |-> "called", m |-> m, kinds |-> kinds]
  /\ fallbackEnabled = TRUE
  /\ reconnectDelay = 0
  /\ closure = [r \in Roles |-> ErrKinds]
  /\ InitManager(Callers)

ApplyRunFunction0 ==
  /\ applied.fn = "runFunction0" /\ applied.stage = "called"
  /\ applied' = [fn |-> applied.fn, stage |-> "returned", m |-> applied.m,
                 kinds |-> applied.kinds,
                 out |-> runFunction0(applied.m, Function0(applied.kinds))]
  /\ UNCHANGED <<fallbackEnabled, reconnectDelay, closure, manager, now, pc, trace,
                 ret, alone>>

ApplyRunFunction2 ==
  /\ applied.fn = "runFunction2" /\ applied.stage = "called"
  /\ applied' = [fn |-> applied.fn, stage |-> "returned", m |-> applied.m,
                 kinds |-> applied.kinds,
                 out |-> runFunction2(applied.m, Function2(applied.kinds))]
  /\ UNCHANGED <<fallbackEnabled, reconnectDelay, closure, manager, now, pc, trace,
                 ret, alone>>

NextC15 == ApplyRunFunction0 \/ ApplyRunFunction2

SpecC15 == InitC15 /\ [][NextC15]_vars

\* The client of the last closure invocation of a log.
LastInvoked(log) ==
  log[CHOOSE i \in 1..Len(log) :
        log[i].op = "Call" /\ \A j \in (i + 1)..Len(log) : log[j].op # "Call"].role

\* C15: called on the same manager with closures that return the same errors on
\* each client, runFunction0 and runFunction2 make the same readiness reads,
\* the same closure invocations in the same order and the same readiness
\* writes as runFunction1, leave the same manager and return the same error;
\* and when that error is nil runFunction2 returns the two values the closure
\* returned on the client it last ran on.
C15_RunnersAgree ==
  applied.stage = "returned" =>
    LET one == runFunction1(applied.m, Function1(applied.kinds), <<>>)
        out == applied.out
    IN /\ out.log = one.log
       /\ out.m = one.m
       /\ out.err = one.ret.err
       /\ (applied.fn = "runFunction2" /\ out.err = NilErr) =>
            /\ out.arg1 = Arg1Of(LastInvoked(out.log))
            /\ out.arg2 = Arg2Of(LastInvoked(out.log))

\* runFunction2 has returned the fallback's two values after the closure got a
\* disconnect error on the primary client and the primary was marked not ready.
C15_Witness ==
  /\ applied.stage = "returned"
  /\ applied.fn = "runFunction2"
  /\ applied.out.arg1 = Arg1Of("fallback")
  /\ applied.out.arg2 = Arg2Of("fallback")
  /\ applied.out.err = NilErr
  /\ Len(applied.out.log) = 6
  /\ ~applied.out.m.primaryReady

\* ----------------------------------------------------------------------- C16
\* The contexts the client bindings run their calls under.  Times are in seconds.

\* The default timeouts of the client bindings.
DefaultFastTimeout == 5

DefaultSlowTimeout == 30

\* The deadlines a caller's context may carry are drawn from 0..MaxDeadline.
MaxDeadline == 40

\* A nil context, a context without a deadline, a context with a deadline.
NilContext == [isNil |-> TRUE, hasDeadline |-> FALSE, deadline |-> 0]

Background == [isNil |-> FALSE, hasDeadline |-> FALSE, deadline |-> 0]

WithDeadlineAt(d) == [isNil |-> FALSE, hasDeadline |-> TRUE, deadline |-> d]

Contexts == {NilContext, Background} \cup {WithDeadlineAt(d) : d \in 0..MaxDeadline}

\* context.WithTimeout panics on a nil parent.
Panicked == [isNil |-> TRUE, hasDeadline |-> FALSE, deadline |-> 0, panic |-> TRUE]

\* context.WithTimeout(parent, timeout) at time t: the child's deadline is
\* t + timeout unless the parent's deadline is earlier.
WithTimeout(parent, timeout, t) ==
  IF parent.isNil THEN Panicked
  ELSE IF parent.hasDeadline /\ parent.deadline < t + timeout THEN parent
  ELSE WithDeadlineAt(t + timeout)

\* The calls of the execution client binding and of the beacon client binding.
EthCalls ==
  {"CodeAt", "CallContract", "HeaderByHash", "HeaderByNumber", "PendingCodeAt",
   "PendingNonceAt", "SuggestGasPrice", "SuggestGasTipCap", "EstimateGas",
   "SendTransaction", "FilterLogs", "SubscribeFilterLogs", "TransactionReceipt",
   "BlockNumber", "BalanceAt", "TransactionByHash", "NonceAt", "SyncProgress",
   "ChainID"}

BeaconCalls ==
  {"Beacon_Attestations", "Beacon_Block", "Beacon_BlsToExecutionChanges_Post",
   "Beacon_Committees", "Beacon_FinalityCheckpoints", "Beacon_Genesis",
   "Beacon_Header", "Beacon_Validators", "Beacon_VoluntaryExits_Post",
   "Config_DepositContract", "Config_Spec", "Node_Syncing",
   "Validator_DutiesProposer", "Validator_DutiesSync_Post"}

\* The timeout a call of BeaconHttpProvider passes to prepareContext.
BeaconTimeoutOf(method) ==
  IF method \in {"Beacon_Committees", "Beacon_Validators"}
    THEN DefaultSlowTimeout ELSE DefaultFastTimeout

\* The timeout a call of StandardRpcClient passes on, in both of its versions.
EthTimeoutOf(method) ==
  IF method = "FilterLogs" THEN DefaultSlowTimeout ELSE DefaultFastTimeout

\* BeaconHttpProvider.prepareContext(ctx, defaultTimeout) at time t.
BeaconPrepareContext(ctx, defaultTimeout, t) ==
  LET made == IF ctx.isNil THEN Background ELSE ctx
  IN IF made.hasDeadline THEN made ELSE WithTimeout(made, defaultTimeout, t)

\* StandardRpcClient.prepareContext(ctx, defaultTimeout) at time t.
EthPrepareContext(ctx, defaultTimeout, t) ==
  LET made == IF ctx.isNil THEN Background ELSE ctx
  IN IF made.hasDeadline THEN made ELSE WithTimeout(made, defaultTimeout, t)

\* logRequestAndCreateContext(ctx, timeout, methodName) at time t.
logRequestAndCreateContext(ctx, timeout, t) == WithTimeout(ctx, timeout, t)

\* A caller is about to make a call on one of the client bindings.
InitC16 ==
  /\ \E binding \in {"BeaconHttpProvider", "StandardRpcClient", "StandardRpcClientLogged"},
        ctx \in Contexts :
       \E method \in IF binding = "BeaconHttpProvider" THEN BeaconCalls ELSE EthCalls :
         applied = [fn |-> binding, stage |-> "called", method |-> method, ctx |-> ctx]
  /\ fallbackEnabled = TRUE
  /\ reconnectDelay = 0
  /\ closure = [r \in Roles |-> ErrKinds]
  /\ primaryReady = TRUE
  /\ fallbackReady = TRUE
  /\ primaryFailTime = 0
  /\ fallbackFailTime = 0
  /\ now \in 0..MaxTime
  /\ pc = [p \in Callers |-> "idle"]
  /\ trace = [p \in Callers |-> <<>>]
  /\ ret = [p \in Callers |-> NoRet]
  /\ alone = [p \in Callers |-> FALSE]

\* The call runs under the context the binding prepared.
Prepared(out) ==
  /\ applied.stage = "called"
  /\ applied' = [fn |-> applied.fn, stage |-> "returned", method |-> applied.method,
                 ctx |-> applied.ctx, out |-> out]
  /\ UNCHANGED <<fallbackEnabled, reconnectDelay, closure, manager, now, pc, trace,
                 ret, alone>>

BeaconCall ==
  /\ applied.fn = "BeaconHttpProvider"
  /\ Prepared(BeaconPrepareContext(applied.ctx, BeaconTimeoutOf(applied.method), now))

EthCall ==
  /\ applied.fn = "StandardRpcClient"
  /\ Prepared(EthPrepareContext(applied.ctx, EthTimeoutOf(applied.method), now))

EthCallLogged ==
  /\ applied.fn = "StandardRpcClientLogged"
  /\ Prepared(logRequestAndCreateContext(applied.ctx, EthTimeoutOf(applied.method), now))

NextC16 == BeaconCall \/ EthCall \/ EthCallLogged

SpecC16 == InitC16 /\ [][NextC16]_vars

\* The default timeout of a call's type: slow for FilterLogs, Beacon_Committees
\* and Beacon_Validators, fast for every other call.
TierTimeout(method) ==
  IF method \in {"FilterLogs", "Beacon_Committees", "Beacon_Validators"}
    THEN DefaultSlowTimeout ELSE DefaultFastTimeout

\* C16 as stated: a client binding call made with a context that carries a
\* deadline runs under exactly that deadline, and a call made with a context
\* without a deadline, or with a nil context, runs under a deadline of the
\* call type's default timeout from now.
C16_AsStated ==
  applied.stage = "returned" =>
    IF applied.ctx.hasDeadline
      THEN applied.out = WithDeadlineAt(applied.ctx.deadline)
      ELSE applied.out = WithDeadlineAt(now + TierTimeout(applied.method))

\* ----------------------------------------------------------------------- C17

\* The errors a closure returns when the caller's context ended: it was
\* cancelled, or its deadline expired.  Neither is a disconnection.
ContextErrKinds == {"cancel", "deadline"}

\* A manager with a fallback whose closures, on the primary client, end with
\* the caller's context or get a disconnect error.
InitC17 ==
  /\ fallbackEnabled = TRUE
  /\ reconnectDelay \in 0..MaxDelay
  /\ closure = [r \in Roles |-> IF r = "primary" THEN ContextErrKinds \cup {"disc"}
                                                   ELSE {"nil", "disc"}]
  /\ applied = NoCall
  /\ InitManager(Callers)

NextC17 ==
  \/ Tick
  \/ \E p \in Procs : Dispatch(p)
  \/ \E p \in Procs : StepC12(p)

SpecC17 == InitC17 /\ [][NextC17]_vars

\* The closure's invocation on the primary, through the ready branch, returns
\* to goroutine p with an error of the caller's context in this step.
C17_ContextEnds(p) ==
  /\ pc[p] = "inPrimary"
  /\ Len(trace'[p]) > Len(trace[p])
  /\ trace'[p][Len(trace[p]) + 1].op = "Call"
  /\ trace'[p][Len(trace[p]) + 1].err.kind \in ContextErrKinds

\* C17: a primary attempt that ends because the caller's context was cancelled
\* or its deadline expired is not treated as a disconnect.  The step that ends
\* it returns that error (with the zero value) to the caller and writes no
\* readiness; the closure is not invoked on the fallback in that dispatch,
\* neither before nor afterwards; and when no other goroutine stepped in
\* between the primary is still ready when the dispatch has returned.  (An
\* attempt forced on a primary that is not ready returns the error as well.)
C17_CancelIsNoDisconnect ==
  /\ [][\A p \in Procs :
          C17_ContextEnds(p) =>
            /\ Returns(p)
            /\ ret'[p] = [val |-> Blank, err |-> trace'[p][Len(trace[p]) + 1].err]
            /\ Len(trace'[p]) = Len(trace[p]) + 1
            /\ UNCHANGED manager]_vars
  /\ [] \A p \in Procs :
          (Done(p) /\ ret[p].err.kind \in ContextErrKinds) =>
            LET tr == trace[p]
                n == Len(tr)
            IN /\ tr[n].op = "Call" /\ tr[n].role = "primary" /\ tr[n].err = ret[p].err
               /\ Calls(tr, "fallback") = {}
               /\ IsRead(tr[n - 1], "primary", TRUE) =>
                    /\ ret[p].val = Blank
                    /\ alone[p] => primaryReady

\* A dispatch that ran alone read the primary ready, its closure ended there
\* with the caller's context cancelled, and it has returned that error.
C17_Witness ==
  \E p \in Procs :
    /\ Done(p)
    /\ alone[p]
    /\ ret[p] = [val |-> Blank, err |-> ClosureErr("cancel", "primary")]
    /\ primaryReady
    /\ fallbackReady

\* ----------------------------------------------------------------------- C18

\* runtime.NumCPU() is drawn from 1..MaxCPU.
MaxCPU == 128

\* concurrentCallLimit without the raise to 1 of lines 128-130.
concurrentCallLimit_NotRaised(numCPU) == numCPU \div 2

\* Lines 127-130 of service-provider.go: half the CPUs, and at least 1.
concurrentCallLimit(numCPU) ==
  LET half == numCPU \div 2
  IN IF half < 1 THEN 1 ELSE half

\* The service provider is about to be created on a machine with some CPUs.
InitC18 ==
  /\ \E numCPU \in 1..MaxCPU :
       applied = [fn |-> "NewServiceProviderWithCustomServices", stage |-> "called",
                  numCPU |-> numCPU]
  /\ fallbackEnabled = TRUE
  /\ reconnectDelay = 0
  /\ closure = [r \in Roles |-> ErrKinds]
  /\ InitManager(Callers)

\* Line 131: eth.NewQueryManager(ecManager, address, concurrentCallLimit).
NewQueryManager ==
  /\ applied.fn = "NewServiceProviderWithCustomServices"
  /\ applied.stage = "called"
  /\ applied' = [fn |-> applied.fn, stage |-> "returned", numCPU |-> applied.numCPU,
                 limit |-> concurrentCallLimit(applied.numCPU)]
  /\ UNCHANGED <<fallbackEnabled, reconnectDelay, closure, manager, now, pc, trace,
                 ret, alone>>

NextC18 == NewQueryManager

SpecC18 == InitC18 /\ [][NextC18]_vars

\* C18: the query manager's concurrent-call limit is the floor of NumCPU / 2,
\* raised to 1 when that is less than 1: with two or more CPUs it is the
\* greatest integer whose double is at most NumCPU, with one CPU it is 1, and
\* it is always at least 1 and at most NumCPU.
C18_ConcurrentCallLimit ==
  applied.stage = "returned" =>
    LET n == applied.numCPU
        limit == applied.limit
    IN /\ n >= 2 => (2 * limit <= n /\ n < 2 * (limit + 1))
       /\ n < 2 => limit = 1
       /\ 1 <= limit
       /\ limit <= n

\* The query manager was created on a machine with one CPU, with limit 1.
C18_Witness ==
  /\ applied.stage = "returned"
  /\ applied.numCPU = 1
  /\ applied.limit = 1

\* ----------------------------------------------------------------------- C19

\* C19 as stated: a dispatch makes at most two closure invocations in all, one
\* on the primary followed by at most one more on the fallback or forced on
\* the primary, whatever reconnectDelay is and however much time passes
\* between its steps; after the primary was marked not ready in a dispatch,
\* that dispatch never reads the primary ready again.
C19_AsStated ==
  \A p \in Procs :
    LET tr == trace[p]
    IN /\ Cardinality(Calls(tr, "primary") \cup Calls(tr, "fallback")) <= 2
       /\ \A i \in Marks(tr) : \A j \in 1..Len(tr) :
            (tr[i].role = "primary" /\ j > i) => ~IsRead(tr[j], "primary", TRUE)

\* ----------------------------------------------------------------------- C20

\* C20 as stated: when a dispatch found neither role ready, forced its attempt
\* on the primary and that attempt succeeded, the primary is ready again once
\* the dispatch has returned (no other goroutine having stepped meanwhile), so
\* that the next dispatch takes the primary-ready branch.
C20_AsStated ==
  \A p \in Procs :
    ( /\ Done(p)
      /\ alone[p]
      /\ \E i \in 1..Len(trace[p]) : IsRead(trace[p][i], "fallback", FALSE)
      /\ ret[p].err = NilErr ) => primaryReady

\* ----------------------------------------------------------------------- C21

\* Goroutine p's closure returns in this step from the client of a role, with
\* a disconnect error, having been invoked through that role's ready branch.
C21_DisconnectsOn(p, role) ==
  /\ pc[p] = (IF role = "primary" THEN "inPrimary" ELSE "inFallback")
  /\ IsRead(trace[p][Len(trace[p])], role, TRUE)
  /\ Len(trace'[p]) = Len(trace[p]) + 2
  /\ IsCall(trace'[p][Len(trace[p]) + 1], role, "disc")
  /\ trace'[p][Len(trace[p]) + 2] = Event("SetReady", role, "false", NilErr)

\* Goroutine p's closure returns in this step with a nil error or with an
\* application error, or returns from the attempt forced on the primary.
C21_QuietReturn(p) ==
  /\ pc[p] \in {"inPrimary", "inFallback", "forced", "solo"}
  /\ Returns(p)
  /\ \/ pc[p] \in {"forced", "solo"}
     \/ /\ Len(trace'[p]) > Len(trace[p])
        /\ trace'[p][Len(trace[p]) + 1].err.kind \in {"nil", "app"}

\* What C21 asks of one step.
C21_Step ==
  /\ (primaryReady /\ ~primaryReady') => \E p \in Procs : C21_DisconnectsOn(p, "primary")
  /\ (fallbackReady /\ ~fallbackReady') => \E p \in Procs : C21_DisconnectsOn(p, "fallback")
  /\ primaryFailTime' # primaryFailTime => \E p \in Procs : C21_DisconnectsOn(p, "primary")
  /\ fallbackFailTime' # fallbackFailTime =>
       \E p \in Procs : C21_DisconnectsOn(p, "fallback")
  /\ (~primaryReady /\ primaryReady') => \E p \in Procs : Rechecks(p)
  /\ (~fallbackReady /\ fallbackReady') => \E p \in Procs : Rechecks(p)
  /\ \A p \in Procs : C21_QuietReturn(p) => UNCHANGED manager

\* C21: a role's readiness goes from true to false, and its failure time
\* changes, only in a step in which a closure invoked on that role's client
\* through that role's ready branch returns a disconnect error; it goes from
\* false to true only in a recheck pass; and a return with success, with an
\* application error or from the forced primary attempt writes neither
\* readiness nor a failure time.
C21_ReadinessWrites == [][C21_Step]_vars

\* Both roles were marked not ready, each by a dispatch that saw the role's
\* client disconnect, and a later dispatch forced on the primary has returned.
C21_Witness ==
  /\ ~primaryReady
  /\ ~fallbackReady
  /\ \E p \in Procs :
       /\ Done(p)
       /\ \E i \in 1..Len(trace[p]) : IsRead(trace[p][i], "fallback", FALSE)
       /\ trace[p][Len(trace[p])].op = "Call"

\* ----------------------------------------------------------------------- C22

\* C22: with a fallback configured, every invocation of the closure on the
\* fallback client comes after a read of the primary as not ready that the
\* same dispatch made after a recheck pass, with no invocation on the primary
\* between that read and the fallback invocation; and whenever a dispatch
\* reads the primary ready, the closure is next invoked on the primary (the
\* dispatch is inside that invocation, or the next trace entry records it),
\* so a dispatch whose first read finds the primary ready tries it first.
C22_FallbackOnlyAfterPrimaryNotReady ==
  \A p \in Procs :
    LET tr == trace[p]
        n == Len(tr)
    IN /\ \A j \in Calls(tr, "fallback") :
            /\ j >= 4
            /\ tr[j - 3].op = "Recheck"
            /\ IsRead(tr[j - 2], "primary", FALSE)
            /\ IsRead(tr[j - 1], "fallback", TRUE)
       /\ pc[p] = "inFallback" =>
            /\ n >= 3
            /\ tr[n - 2].op = "Recheck"
            /\ IsRead(tr[n - 1], "primary", FALSE)
       /\ \A i \in 1..n :
            IsRead(tr[i], "primary", TRUE) =>
              /\ tr[i - 1].op = "Recheck"
              /\ IF i = n THEN pc[p] = "inPrimary"
                 ELSE tr[i + 1].op = "Call" /\ tr[i + 1].role = "primary"
       /\ (n >= 2 /\ IsRead(tr[2], "primary", TRUE)) =>
            \A j \in Calls(tr, "fallback") :
              \E i \in Calls(tr, "primary") : i < j

\* A dispatch whose first read found the primary not ready has invoked the
\* closure on the fallback only, and returned its result.
C22_Witness ==
  \E p \in Procs :
    /\ Done(p)
    /\ Len(trace[p]) = 4
    /\ IsRead(trace[p][2], "primary", FALSE)
    /\ Calls(trace[p], "primary") = {}
    /\ Calls(trace[p], "fallback") = {4}
    /\ ret[p] = [val |-> ValOf("fallback"), err |-> NilErr]

\* ----------------------------------------------------------------------- C23

\* The closure returns to goroutine p from the fallback client, in this step,
\* with an application error.
C23_AppErrorOnFallback(p) ==
  /\ pc[p] = "inFallback"
  /\ Len(trace'[p]) > Len(trace[p])
  /\ IsCall(trace'[p][Len(trace[p]) + 1], "fallback", "app")

\* C23: when a dispatch has read the primary not ready and the fallback ready
\* and the closure returns an application error on the fallback, that step
\* returns the closure's error itself with the zero value, not the all-failed
\* error, and writes no readiness; a dispatch that went that way from its
\* first read has not invoked the closure on the primary, and when no other
\* goroutine stepped meanwhile the fallback is still ready and the primary
\* still not ready when it has returned.
C23_AppErrorFromFallback ==
  /\ [][\A p \in Procs :
          C23_AppErrorOnFallback(p) =>
            /\ Returns(p)
            /\ Len(trace'[p]) = Len(trace[p]) + 1
            /\ ret'[p] = [val |-> Blank, err |-> ClosureErr("app", "fallback")]
            /\ UNCHANGED manager]_vars
  /\ [] \A p \in Procs :
          ( /\ Done(p)
            /\ Len(trace[p]) >= 4
            /\ IsRead(trace[p][2], "primary", FALSE)
            /\ IsCall(trace[p][4], "fallback", "app") ) =>
            /\ Len(trace[p]) = 4
            /\ IsRead(trace[p][3], "fallback", TRUE)
            /\ Calls(trace[p], "primary") = {}
            /\ ret[p].err = trace[p][4].err
            /\ ret[p].err.kind # "allFailed"
            /\ alone[p] => (fallbackReady /\ ~primaryReady)

\* A dispatch that ran alone found the primary not ready and the fallback
\* ready, and has returned the application error the closure made on the
\* fallback client.
C23_Witness ==
  \E p \in Procs :
    /\ Done(p)
    /\ alone[p]
    /\ Len(trace[p]) = 4
    /\ IsRead(trace[p][2], "primary", FALSE)
    /\ IsCall(trace[p][4], "fallback", "app")
    /\ ret[p] = [val |-> Blank, err |-> ClosureErr("app", "fallback")]
    /\ fallbackReady
    /\ ~primaryReady

\* ----------------------------------------------------------------------- C24

\* The last closure invocation of a runner's log returned an application error.
C24_EndsWithAppError(log) ==
  /\ Len(log) >= 1
  /\ log[Len(log)].op = "Call"
  /\ log[Len(log)].err.kind = "app"

\* The last closure invocation of a log was made without a ready branch: the
\* manager has no fallback, or the attempt was forced on the primary.
C24_Direct(log) ==
  \/ Len(log) = 1
  \/ IsRead(log[Len(log) - 1], "fallback", FALSE)

\* C24 as stated: when the closure returns an application error together with
\* result values, runFunction1 returns that value and runFunction2 those two
\* values with the error, as the closure produced them, with a fallback
\* configured or without.
C24_AsStated ==
  applied.stage = "returned" =>
    LET one == runFunction1(applied.m, Function1(applied.kinds), <<>>)
        role == LastInvoked(one.log)
    IN C24_EndsWithAppError(one.log) =>
         /\ one.ret = Function1(applied.kinds)[role]
         /\ applied.fn = "runFunction2" =>
              /\ applied.out.arg1 = Arg1Of(role)
              /\ applied.out.arg2 = Arg2Of(role)
              /\ applied.out.err = Function2(applied.kinds)[role].err

\* C24, amended: when the closure returns an application error together with
\* result values, every runner returns the closure's error as it is; the
\* result values come back as the closure produced them only when the manager
\* has no fallback or the attempt was forced on the primary with neither role
\* ready, and are replaced by zero values when the closure was invoked through
\* the ready branch of the primary or of the fallback.
C24_ValuesWithError ==
  applied.stage = "returned" =>
    LET one == runFunction1(applied.m, Function1(applied.kinds), <<>>)
        role == LastInvoked(one.log)
    IN C24_EndsWithAppError(one.log) =>
         /\ one.ret.err = Function1(applied.kinds)[role].err
         /\ one.ret.val = IF C24_Direct(one.log) THEN ValOf(role) ELSE Blank
         /\ applied.out.err = one.ret.err
         /\ applied.out.log = one.log
         /\ applied.fn = "runFunction2" =>
              /\ applied.out.arg1 = IF C24_Direct(one.log) THEN Arg1Of(role) ELSE Blank
              /\ applied.out.arg2 = IF C24_Direct(one.log) THEN Arg2Of(role) ELSE Blank

\* runFunction2 has returned zero values with the application error the
\* closure made on the primary client of a manager with a fallback, whose
\* closure had returned two values beside the error.
C24_Witness ==
  /\ applied.stage = "returned"
  /\ applied.fn = "runFunction2"
  /\ applied.m.fallbackEnabled
  /\ applied.out.err = ClosureErr("app", "primary")
  /\ applied.out.arg1 = Blank
  /\ applied.out.arg2 = Blank
  /\ Function2(applied.kinds)["primary"].arg1 = Arg1Of("primary")

\* ----------------------------------------------------------------------- C25

\* Goroutine p marks a role not ready in this step, after its closure got a
\* disconnect error on that role's client.
C25_Marks(p, role) ==
  /\ Len(trace'[p]) = Len(trace[p]) + 2
  /\ trace'[p][Len(trace[p]) + 2] = Event("SetReady", role, "false", NilErr)

\* Goroutine p has marked a role not ready and has not stepped since.
C25_JustMarked(p, role) ==
  /\ Len(trace[p]) >= 1
  /\ trace[p][Len(trace[p])] = Event("SetReady", role, "false", NilErr)

\* What C25 asks of one step: a mark leaves the role not ready with the time
\* of that mark as its failure time, whatever marks and reads of other
\* goroutines came before it, and leaves the other role alone; the failure
\* time of a role is always the time of one of the marks; and a recheck pass
\* flips a role that is not ready exactly when reconnectDelay has passed since
\* the recorded failure time, however many marks recorded it.
C25_Step ==
  /\ \A p \in Procs :
       /\ C25_Marks(p, "primary") =>
            /\ ~primaryReady' /\ primaryFailTime' = now
            /\ UNCHANGED <<fallbackReady, fallbackFailTime>>
       /\ C25_Marks(p, "fallback") =>
            /\ ~fallbackReady' /\ fallbackFailTime' = now
            /\ UNCHANGED <<primaryReady, primaryFailTime>>
       /\ (Rechecks(p) /\ ~primaryReady) =>
            (primaryReady' <=> now - primaryFailTime >= reconnectDelay)
       /\ (Rechecks(p) /\ ~fallbackReady) =>
            (fallbackReady' <=> now - fallbackFailTime >= reconnectDelay)
  /\ primaryFailTime' # primaryFailTime => \E p \in Procs : C25_Marks(p, "primary")
  /\ fallbackFailTime' # fallbackFailTime => \E p \in Procs : C25_Marks(p, "fallback")

\* C25: when concurrent dispatches each see a disconnect on the same role and
\* each mark it not ready, after every one of those marks the role is not
\* ready with the time of the latest mark recorded, under every interleaving
\* with the other goroutine's reads and marks; while all the goroutines that
\* marked it have not stepped further the role stays not ready with a failure
\* time not in the future; and the next recheck pass restores it exactly when
\* reconnectDelay has passed since the recorded time.
C25_ConcurrentMarks ==
  /\ [][C25_Step]_vars
  /\ [] \A role \in Roles :
          (\A p \in Procs : C25_JustMarked(p, role)) =>
            IF role = "primary" THEN ~primaryReady /\ primaryFailTime <= now
                                ELSE ~fallbackReady /\ fallbackFailTime <= now

\* Both goroutines have seen the primary disconnect and marked it, the second
\* one tick after the first, and neither has stepped since.
C25_Witness ==
  /\ \A p \in Procs : C25_JustMarked(p, "primary")
  /\ ~primaryReady
  /\ primaryFailTime = 1
  /\ \E p \in Procs : alone[p] = FALSE

\* ------------------------------------------------------------------ wallet

\* The mnemonics a wallet can be created or recovered from and the passwords
\* a caller can give.
Mnemonics == {"m1", "m2"}

Passwords == {"p1", "p2"}

\* wallet.go 30-31, 36-37: the wallet's errors.
ErrWalletNotLoaded == [kind |-> "app", msg |-> "wallet is not loaded"]

ErrKeystoreAlreadyPresent ==
  [kind |-> "app",
   msg |-> "wallet keystore is already present - please delete it before creating a new wallet"]

\* The nil IWalletManager, and a local wallet manager holding the key derived
\* from a mnemonic and the password its keystore is encrypted with.  The
\* wallet data file is absent or holds the keystore of a key under a password.
NilWalletManager == [loaded |-> FALSE, key |-> "", password |-> ""]

newLocalWalletManager(key, password) == [loaded |-> TRUE, key |-> key, password |-> password]

\* The node address of a key.
AddressOfKey(key) == "address of " \o key

\* An error made with fmt.Errorf.
Errorf(msg) == [kind |-> "app", msg |-> msg]

\* What a wallet method returns: a value and an error, or a panic.
Returned(val, err) == [val |-> val, err |-> err, panic |-> FALSE]

\* A wallet method's effect: the wallet with its files afterwards, and the
\* result.  Every method locks on entry and unlocks by defer, panic included.
Effect(w, out) == [w |-> [w EXCEPT !.locked = FALSE], out |-> out]

\* wallet.go 481-509: read the wallet data file and unlock it with a
\* password.
loadWalletData(w, password) ==
  IF ~w.walletDataFile.exists
    THEN [mgr |-> NilWalletManager, err |-> Errorf("error reading wallet data")]
  ELSE IF w.walletDataFile.password # password
    THEN [mgr |-> NilWalletManager, err |-> Errorf("error loading local wallet data")]
  ELSE [mgr |-> newLocalWalletManager(w.walletDataFile.key, password), err |-> NilErr]

\* wallet.go 118-146: Reload.  A saved password that fails to load the
\* keystore leaves walletManager as it was; no saved password clears it.
Reload(w) ==
  LET isPasswordSaved == w.passwordFile # "none"
      loaded == loadWalletData(w, w.passwordFile)
      mgr == IF isPasswordSaved
               THEN IF loaded.mgr.loaded THEN loaded.mgr ELSE w.walletManager
               ELSE NilWalletManager
  IN Effect([w EXCEPT !.walletManager = mgr, !.address = w.addressFile],
            Returned("", NilErr))

\* wallet.go 520-523: masqueradeImpl sets the node address and saves it.
masqueradeImpl(w, newAddress) ==
  Effect([w EXCEPT !.address = newAddress, !.addressFile = newAddress],
         Returned("", NilErr))

\* wallet.go 229-243: RestoreAddressToWallet tests addressManager, which
\* NewWallet always sets, and then calls GetAddress on walletManager: a nil
\* walletManager is a nil interface, and the call panics.
RestoreAddressToWallet(w) ==
  IF ~w.hasAddressManager THEN Effect(w, Returned("", ErrWalletNotLoaded))
  ELSE IF ~w.walletManager.loaded THEN Effect(w, [val |-> "", err |-> NilErr, panic |-> TRUE])
  ELSE masqueradeImpl(w, AddressOfKey(w.walletManager.key))

\* wallet.go 425-467: buildLocalWallet writes the wallet data file, the
\* address file and, when asked, the password file, unless in test mode, and
\* then sets walletManager.  It does not look at the wallet data file first.
buildLocalWallet(w, mnemonic, password, savePassword, testMode) ==
  LET localMgr == newLocalWalletManager(mnemonic, password)
      walletAddress == AddressOfKey(mnemonic)
      saved == [w EXCEPT !.walletDataFile = [exists |-> TRUE, key |-> mnemonic,
                                              password |-> password],
                         !.address = walletAddress,
                         !.addressFile = walletAddress,
                         !.passwordFile = IF savePassword THEN password ELSE @]
      tested == [w EXCEPT !.address = walletAddress]
  IN [(IF testMode THEN tested ELSE saved) EXCEPT !.walletManager = localMgr]

\* wallet.go 246-266: CreateNewLocalWallet; the mnemonic is the one
\* GenerateNewMnemonic drew.
CreateNewLocalWallet(w, mnemonic, password, savePassword) ==
  IF w.walletManager.loaded THEN Effect(w, Returned("", ErrKeystoreAlreadyPresent))
  ELSE Effect(buildLocalWallet(w, mnemonic, password, savePassword, FALSE),
              Returned(mnemonic, NilErr))

\* wallet.go 269-283: Recover.
Recover(w, mnemonic, password, savePassword, testMode) ==
  IF w.walletManager.loaded THEN Effect(w, Returned("", ErrKeystoreAlreadyPresent))
  ELSE IF mnemonic \notin Mnemonics THEN Effect(w, Returned("", Errorf("invalid mnemonic")))
  ELSE Effect(buildLocalWallet(w, mnemonic, password, savePassword, testMode),
              Returned("", NilErr))

\* wallet.go 286-337: SetPassword.
SetPassword(w, password, save) ==
  IF w.walletManager.loaded
    THEN IF ~save THEN Effect(w, Returned("", Errorf("wallet is already loaded, nothing to do")))
         ELSE IF w.walletManager.password # password
           THEN Effect(w, Returned("", Errorf("provided password is not correct")))
         ELSE Effect([w EXCEPT !.passwordFile = password], Returned("", NilErr))
  ELSE IF ~w.walletDataFile.exists THEN Effect(w, Returned("", Errorf("keystore not present")))
  ELSE LET loaded == loadWalletData(w, password)
       IN IF loaded.err # NilErr
            THEN Effect(w, Returned("", Errorf("error loading wallet with provided password")))
            ELSE Effect([w EXCEPT !.passwordFile = IF save THEN password ELSE @,
                                  !.walletManager = loaded.mgr],
                        Returned("", NilErr))

\* wallet.go 348-357: DeletePassword removes the password file.
DeletePassword(w) == Effect([w EXCEPT !.passwordFile = "none"], Returned("", NilErr))

\* The methods that hand a request to the loaded wallet manager.
ManagerMethods ==
  {"GetTransactor", "SignMessage", "SignTransaction", "GetNodePrivateKeyBytes",
   "GetEthKeystore", "SerializeData", "GenerateValidatorKey"}

\* wallet.go 158-165, 199-218, 360-423: each of these methods returns
\* ErrWalletNotLoaded on a nil walletManager and the manager's answer
\* otherwise; every manager loadWalletData or buildLocalWallet makes is a
\* local one, which supports them all.
ManagerMethod(w, method) ==
  IF ~w.walletManager.loaded THEN Effect(w, Returned("", ErrWalletNotLoaded))
  ELSE Effect(w, Returned(method \o " of " \o w.walletManager.key, NilErr))

\* wallet.go 64-79: NewWallet on a machine without wallet files: the managers
\* are created, nothing is loaded.
NewWallet ==
  [walletManager |-> NilWalletManager, hasAddressManager |-> TRUE,
   walletDataFile |-> [exists |-> FALSE, key |-> "", password |-> ""], passwordFile |-> "none",
   addressFile |-> "no address", address |-> "no address", locked |-> FALSE]

InitC26 ==
  /\ applied = [fn |-> "Wallet", stage |-> "returned", method |-> "NewWallet",
                w |-> Reload(NewWallet).w, out |-> Reload(NewWallet).out]
  /\ fallbackEnabled = TRUE
  /\ reconnectDelay = 0
  /\ closure = [r \in Roles |-> ErrKinds]
  /\ InitManager(Callers)

\* One call of a wallet method: the wallet takes its effect and the caller
\* gets its result.  A panic ends the program.
WalletCall(method, effect) ==
  /\ applied.fn = "Wallet"
  /\ ~applied.out.panic
  /\ applied' = [fn |-> "Wallet", stage |-> "returned", method |-> method,
                 w |-> effect.w, out |-> effect.out]
  /\ UNCHANGED <<fallbackEnabled, reconnectDelay, closure, manager, now, pc, trace,
                 ret, alone>>

CallReload == WalletCall("Reload", Reload(applied.w))

CallMasqueradeAsAddress ==
  WalletCall("MasqueradeAsAddress", masqueradeImpl(applied.w, "address of another node"))

CallRestoreAddressToWallet ==
  WalletCall("RestoreAddressToWallet", RestoreAddressToWallet(applied.w))

CallCreateNewLocalWallet ==
  \E mnemonic \in Mnemonics, password \in Passwords, savePassword \in BOOLEAN :
    WalletCall("CreateNewLocalWallet",
               CreateNewLocalWallet(applied.w, mnemonic, password, savePassword))

CallRecover ==
  \E mnemonic \in Mnemonics \cup {"not a mnemonic"}, password \in Passwords,
     savePassword \in BOOLEAN, testMode \in BOOLEAN :
    WalletCall("Recover",
               Recover(applied.w, mnemonic, password, savePassword, testMode))

CallSetPassword ==
  \E password \in Passwords, save \in BOOLEAN :
    WalletCall("SetPassword", SetPassword(applied.w, password, save))

CallDeletePassword == WalletCall("DeletePassword", DeletePassword(applied.w))

CallManagerMethod ==
  \E method \in ManagerMethods :
    WalletCall(method, ManagerMethod(applied.w, method))

NextC26 ==
  \/ CallReload
  \/ CallMasqueradeAsAddress
  \/ CallRestoreAddressToWallet
  \/ CallCreateNewLocalWallet
  \/ CallRecover
  \/ CallSetPassword
  \/ CallDeletePassword
  \/ CallManagerMethod

SpecC26 == InitC26 /\ [][NextC26]_vars

\* ----------------------------------------------------------------------- C26

\* The methods C26 names.
C26_Methods == ManagerMethods \cup {"RestoreAddressToWallet"}

\* C26: a method that needs the loaded wallet, called while walletManager is
\* nil, returns ErrWalletNotLoaded, does not panic, releases the lock and
\* leaves the wallet and its files as they were.
C26_AsStated ==
  [][(applied.fn = "Wallet" /\ ~applied.w.walletManager.loaded
        /\ applied'.method \in C26_Methods)
       => /\ ~applied'.out.panic
          /\ applied'.out.err = ErrWalletNotLoaded
          /\ ~applied'.w.locked
          /\ applied'.w = applied.w]_vars

\* ----------------------------------------------------------------------- C27

\* C27: CreateNewLocalWallet and Recover, called while a wallet keystore is
\* present, loaded in memory or only in the wallet data file, return
\* ErrKeystoreAlreadyPresent and change neither the wallet in memory nor the
\* wallet data, address or password file; and no wallet method overwrites a
\* wallet data file that exists.
C27_AsStated ==
  [][applied.fn = "Wallet" =>
       /\ (/\ applied.w.walletManager.loaded \/ applied.w.walletDataFile.exists
           /\ applied'.method \in {"CreateNewLocalWallet", "Recover"})
            => /\ ~applied'.out.panic
               /\ applied'.out.err = ErrKeystoreAlreadyPresent
               /\ applied'.w = applied.w
       /\ applied.w.walletDataFile.exists
            => applied'.w.walletDataFile = applied.w.walletDataFile]_vars

\* -------------------------------------------------------------- GetTransactor

\* The *big.Int fields of bind.TransactOpts, in the order GetTransactor copies
\* them, and the values one of them can hold.
BigFields == <<"Nonce", "Value", "GasPrice", "GasFeeCap", "GasTipCap">>

MaxBig == 2

\* A *big.Int is nil or the address of a big.Int in memory; ints maps each
\* address to the number held there.
NilInt == "nil"

\* wallet.go 171-178: the clone takes From, Signer, GasLimit, Context and
\* NoSend from the manager's transactor; its *big.Int fields start nil.
CloneScalars(opts) ==
  [From |-> opts.From, Signer |-> opts.Signer, GasLimit |-> opts.GasLimit,
   Context |-> opts.Context, NoSend |-> opts.NoSend,
   Nonce |-> NilInt, Value |-> NilInt, GasPrice |-> NilInt, GasFeeCap |-> NilInt,
   GasTipCap |-> NilInt]

\* wallet.go 179-193: one 'if opts.X != nil { clone.Y = big.NewInt(0).Set(
\* opts.X) }' statement; big.NewInt(0).Set(x) is a fresh big.Int, named here
\* after the field it is made from, holding the number x holds.
CopyIfSet(st, from, field) ==
  LET addr == "copy of " \o from
  IN IF st.opts[from] # NilInt
       THEN [st EXCEPT !.clone = [@ EXCEPT ![field] = addr],
                       !.ints = [a \in DOMAIN @ \cup {addr} |->
                                   IF a = addr THEN st.ints[st.opts[from]] ELSE @[a]]]
       ELSE st

\* wallet.go 166-195: GetTransactor on a loaded wallet.  Lines 191-193 test
\* opts.GasTipCap and assign clone.GasFeeCap.
GetTransactor(opts, ints) ==
  LET s0 == [opts |-> opts, ints |-> ints, clone |-> CloneScalars(opts)]
      s1 == CopyIfSet(s0, "Nonce", "Nonce")
      s2 == CopyIfSet(s1, "Value", "Value")
      s3 == CopyIfSet(s2, "GasPrice", "GasPrice")
      s4 == CopyIfSet(s3, "GasFeeCap", "GasFeeCap")
      s5 == CopyIfSet(s4, "GasTipCap", "GasFeeCap")
  IN s5

\* The wallet is loaded and its manager holds a transactor; every *big.Int
\* field that is not nil points at a big.Int of its own.
InitC28 ==
  /\ \E nils \in SUBSET {1, 2, 3, 4, 5}, gasLimit \in {0, 1}, noSend \in BOOLEAN,
        vals \in [{"Nonce", "Value", "GasPrice", "GasFeeCap", "GasTipCap"} -> 1..MaxBig] :
       LET opts == [From |-> "node address", Signer |-> "signer", GasLimit |-> gasLimit,
                    Context |-> "context", NoSend |-> noSend,
                    Nonce |-> IF 1 \in nils THEN NilInt ELSE "Nonce",
                    Value |-> IF 2 \in nils THEN NilInt ELSE "Value",
                    GasPrice |-> IF 3 \in nils THEN NilInt ELSE "GasPrice",
                    GasFeeCap |-> IF 4 \in nils THEN NilInt ELSE "GasFeeCap",
                    GasTipCap |-> IF 5 \in nils THEN NilInt ELSE "GasTipCap"]
           ints == [a \in {BigFields[i] : i \in {1, 2, 3, 4, 5} \ nils} |-> vals[a]]
       IN applied = [fn |-> "GetTransactor", stage |-> "called", opts |-> opts,
                     ints |-> ints, given |-> ints, clone |-> CloneScalars(opts)]
  /\ fallbackEnabled = TRUE
  /\ reconnectDelay = 0
  /\ closure = [r \in Roles |-> ErrKinds]
  /\ InitManager(Callers)

\* Wallet.GetTransactor returns the clone.
CallGetTransactor ==
  /\ applied.fn = "GetTransactor"
  /\ applied.stage = "called"
  /\ LET st == GetTransactor(applied.opts, applied.ints)
     IN applied' = [applied EXCEPT !.stage = "returned", !.ints = st.ints,
                                   !.clone = st.clone]
  /\ UNCHANGED <<fallbackEnabled, reconnectDelay, closure, manager, now, pc, trace,
                 ret, alone>>

\* The caller changes the number behind one *big.Int field of the clone.
ChangeClone ==
  /\ applied.fn = "GetTransactor"
  /\ applied.stage = "returned"
  /\ \E i \in 1..5 :
       /\ applied.clone[BigFields[i]] # NilInt
       /\ applied' = [applied EXCEPT !.stage = "changed",
                                     !.ints[applied.clone[BigFields[i]]] = MaxBig + 1]
  /\ UNCHANGED <<fallbackEnabled, reconnectDelay, closure, manager, now, pc, trace,
                 ret, alone>>

NextC28 == CallGetTransactor \/ ChangeClone

SpecC28 == InitC28 /\ [][NextC28]_vars

\* ----------------------------------------------------------------------- C28

\* A *big.Int field of the clone equals the original's: both nil, or both
\* pointing at the same number.
C28_SameNumber(field) ==
  LET o == applied.opts[field]
      c == applied.clone[field]
  IN /\ (o = NilInt) <=> (c = NilInt)
     /\ o # NilInt /\ c # NilInt => applied.ints[c] = applied.ints[o]

\* C28: GetTransactor on a loaded wallet returns a copy whose every field
\* equals the field of the manager's transactor, and a later change to the
\* copy leaves the manager's transactor as it was.
C28_AsStated ==
  /\ (applied.fn = "GetTransactor" /\ applied.stage = "returned") =>
       /\ \A f \in {"From", "Signer", "GasLimit", "Context", "NoSend"} :
            applied.clone[f] = applied.opts[f]
       /\ \A i \in 1..5 : C28_SameNumber(BigFields[i])
  /\ (applied.fn = "GetTransactor" /\ applied.stage = "changed") =>
       \A i \in 1..5 :
         applied.opts[BigFields[i]] # NilInt =>
           applied.ints[applied.opts[BigFields[i]]] = applied.given[applied.opts[BigFields[i]]]

\* ------------------------------------------------------- Parameter.Deserialize

\* The largest MaxLength of a string parameter tried.
MaxMaxLength == 2

\* regexp.MustCompile(regex).MatchString(s) on these strings.
MatchString(regex, s) ==
  CASE regex = "^[0-9]+$" -> s \in {"7", "77"}
    [] regex = "^a" -> s \in {"a", "ab"}
    [] OTHER -> TRUE

\* parameter.go 120-131: the default for the network, or else the one for all
\* networks.
GetDefault(p) == IF p.Default.network # "none" THEN p.Default.network ELSE p.Default.all

\* parameter.go 214-261: deserializeToType of a Parameter[string].  With a
\* Regex set and matched, neither an error nor the value is assigned: the
\* result is the zero string.
deserializeToType(p, serializedDefault) ==
  IF Len(p.Options) > 0
    THEN IF \E i \in 1..Len(p.Options) : p.Options[i] = serializedDefault
           THEN [value |-> serializedDefault, err |-> NilErr]
           ELSE [value |-> "", err |-> Errorf("value is not a valid option")]
  ELSE IF ~p.CanBeBlank /\ serializedDefault = ""
    THEN [value |-> "", err |-> Errorf("value cannot be blank")]
  ELSE IF p.CanBeBlank /\ serializedDefault = ""
    THEN [value |-> "", err |-> NilErr]
  ELSE IF p.MaxLength > 0 /\ Len(serializedDefault) > p.MaxLength
    THEN [value |-> "", err |-> Errorf("value is longer than the max length")]
  ELSE IF p.Regex # ""
    THEN IF ~MatchString(p.Regex, serializedDefault)
           THEN [value |-> "", err |-> Errorf("value did not match the expected format")]
           ELSE [value |-> "", err |-> NilErr]
  ELSE [value |-> serializedDefault, err |-> NilErr]

\* parameter.go 148-168: Deserialize.
Deserialize(p, serializedParam) ==
  LET res == deserializeToType(p, serializedParam)
  IN IF res.err # NilErr
       THEN IF Len(p.Options) > 0
              THEN [p |-> [p EXCEPT !.Value = GetDefault(p)], err |-> NilErr]
            ELSE IF ~p.CanBeBlank /\ serializedParam = ""
              THEN [p |-> [p EXCEPT !.Value = GetDefault(p)], err |-> NilErr]
            ELSE [p |-> p, err |-> Errorf("cannot deserialize parameter")]
       ELSE [p |-> [p EXCEPT !.Value = res.value], err |-> NilErr]

\* A string parameter with a value, about to deserialize a string.
InitC29 ==
  /\ \E options \in {<<>>, <<"a", "7">>}, canBeBlank \in BOOLEAN,
        maxLength \in 0..MaxMaxLength, regex \in {"", "^[0-9]+$", "^a"},
        networkDefault \in {"none", "network default"},
        serializedParam \in {"", "a", "ab", "7", "77"} :
       applied = [fn |-> "Deserialize", stage |-> "called",
                  p |-> [Options |-> options, CanBeBlank |-> canBeBlank,
                         MaxLength |-> maxLength, Regex |-> regex,
                         Default |-> [network |-> networkDefault, all |-> "default"],
                         Value |-> "old value"],
                  serializedParam |-> serializedParam]
  /\ fallbackEnabled = TRUE
  /\ reconnectDelay = 0
  /\ closure = [r \in Roles |-> ErrKinds]
  /\ InitManager(Callers)

\* p.Deserialize(serializedParam, network) returns.
CallDeserialize ==
  /\ applied.fn = "Deserialize"
  /\ applied.stage = "called"
  /\ LET res == Deserialize(applied.p, applied.serializedParam)
     IN applied' = [fn |-> applied.fn, stage |-> "returned", p |-> applied.p,
                    serializedParam |-> applied.serializedParam,
                    Value |-> res.p.Value, err |-> res.err]
  /\ UNCHANGED <<fallbackEnabled, reconnectDelay, closure, manager, now, pc, trace,
                 ret, alone>>

NextC29 == CallDeserialize

SpecC29 == InitC29 /\ [][NextC29]_vars

\* ----------------------------------------------------------------------- C29

\* The input passes the MaxLength check and matches the Regex when one is set.
C29_PassesChecks(p, s) ==
  /\ ~(p.MaxLength > 0 /\ Len(s) > p.MaxLength)
  /\ p.Regex # "" => MatchString(p.Regex, s)

\* C29: on a string parameter without options a non-blank input that passes
\* the MaxLength and Regex checks becomes the Value and nil is returned, a
\* non-blank input that fails a check gives an error and leaves the Value as
\* it was; on a parameter with options an input matching no option sets the
\* Value to the network default and returns nil.
C29_AsStated ==
  (applied.fn = "Deserialize" /\ applied.stage = "returned") =>
    LET p == applied.p
        s == applied.serializedParam
    IN /\ (Len(p.Options) = 0 /\ s # "" /\ C29_PassesChecks(p, s)) =>
            (applied.Value = s /\ applied.err = NilErr)
       /\ (Len(p.Options) = 0 /\ s # "" /\ ~C29_PassesChecks(p, s)) =>
            (applied.Value = p.Value /\ applied.err # NilErr)
       /\ (Len(p.Options) > 0 /\ \A i \in 1..Len(p.Options) : p.Options[i] # s) =>
            (applied.Value = GetDefault(p) /\ applied.err = NilErr)

\* ------------------------------------------ BatchCreateTransactionSubmissions

\* The longest list of creators tried, and the largest safe gas limit of a
\* transaction.
MaxCreators == 3

MaxGas == 2

\* What a creator returns: a description, and a transaction info or an error.
\* A creator that returns no error returns an info, whose simulation result
\* carries the estimated and the safe gas limit and the simulation error ("" is
\* none).
NilTxInfo == [isNil |-> TRUE, SimulationResult |-> [EstGasLimit |-> 0, SafeGasLimit |-> 0,
                                                    SimulationError |-> ""]]

TransactionInfo(safeGasLimit, simulationError) ==
  [isNil |-> FALSE,
   SimulationResult |-> [EstGasLimit |-> safeGasLimit - 1, SafeGasLimit |-> safeGasLimit,
                         SimulationError |-> simulationError]]

CreatorResults ==
  {[description |-> description, txInfo |-> NilTxInfo, err |-> Errorf("creator failed")] :
     description \in {"stake"}}
  \cup
  {[description |-> description, txInfo |-> TransactionInfo(safe, simErr), err |-> NilErr] :
     description \in {"stake"}, safe \in 1..MaxGas, simErr \in {"", "execution reverted"}}

\* The nil *TransactionSubmission and the nil slice of submissions.
NilSubmission == [isNil |-> TRUE, TxInfo |-> NilTxInfo, GasLimit |-> 0]

\* CreateTxSubmissionFromInfo with the estimated instead of the safe gas limit.
CreateTxSubmissionFromInfo_EstGasLimit(txInfo, err) ==
  IF err # NilErr THEN [sub |-> NilSubmission, err |-> err]
  ELSE [sub |-> [isNil |-> FALSE, TxInfo |-> txInfo,
                 GasLimit |-> txInfo.SimulationResult.EstGasLimit],
        err |-> NilErr]

\* part_004 333-341: CreateTxSubmissionFromInfo.
CreateTxSubmissionFromInfo(txInfo, err) ==
  IF err # NilErr THEN [sub |-> NilSubmission, err |-> err]
  ELSE [sub |-> [isNil |-> FALSE, TxInfo |-> txInfo,
                 GasLimit |-> txInfo.SimulationResult.SafeGasLimit],
        err |-> NilErr]

\* BatchCreateTransactionSubmissions is called with a list of creators; line
\* 347 makes the slice of len(creators) nil submissions.
InitC30 ==
  /\ \E n \in 0..MaxCreators, failOnSimErrors \in BOOLEAN :
       \E creators \in [1..n -> CreatorResults] :
         applied = [fn |-> "BatchCreateTransactionSubmissions", stage |-> "called",
                    creators |-> creators, failOnSimErrors |-> failOnSimErrors,
                    i |-> 1, invoked |-> <<>>,
                    txSubmissions |-> [j \in 1..n |-> NilSubmission],
                    out |-> [isNil |-> TRUE, txSubmissions |-> <<>>, err |-> NilErr]]
  /\ fallbackEnabled = TRUE
  /\ reconnectDelay = 0
  /\ closure = [r \in Roles |-> ErrKinds]
  /\ InitManager(Callers)

\* part_004 348-358: one pass of the loop body: the creator is invoked, its
\* result made a submission, and the function returns nil and an error when
\* the creator failed or, with failOnSimErrors, its simulation did.
LoopBody ==
  /\ applied.fn = "BatchCreateTransactionSubmissions"
  /\ applied.stage = "called"
  /\ applied.i <= Len(applied.creators)
  /\ LET i == applied.i
         created == applied.creators[i]
         description == created.description
         res == CreateTxSubmissionFromInfo(created.txInfo, created.err)
         txSubmission == res.sub
         invoked == Append(applied.invoked, i)
     IN IF res.err # NilErr
          THEN applied' = [applied EXCEPT
                 !.stage = "returned", !.invoked = invoked,
                 !.out = [isNil |-> TRUE, txSubmissions |-> <<>>,
                          err |-> Errorf("error creating " \o description \o " TX")]]
        ELSE IF /\ applied.failOnSimErrors
                /\ txSubmission.TxInfo.SimulationResult.SimulationError # ""
          THEN applied' = [applied EXCEPT
                 !.stage = "returned", !.invoked = invoked,
                 !.out = [isNil |-> TRUE, txSubmissions |-> <<>>,
                          err |-> Errorf("error simulating " \o description \o " TX")]]
        ELSE applied' = [applied EXCEPT !.i = i + 1, !.invoked = invoked,
                                        !.txSubmissions[i] = txSubmission]
  /\ UNCHANGED <<fallbackEnabled, reconnectDelay, closure, manager, now, pc, trace,
                 ret, alone>>

\* part_004 359: after the last creator, return txSubmissions, nil.
ReturnSubmissions ==
  /\ applied.fn = "BatchCreateTransactionSubmissions"
  /\ applied.stage = "called"
  /\ applied.i > Len(applied.creators)
  /\ applied' = [applied EXCEPT
       !.stage = "returned",
       !.out = [isNil |-> FALSE, txSubmissions |-> applied.txSubmissions, err |-> NilErr]]
  /\ UNCHANGED <<fallbackEnabled, reconnectDelay, closure, manager, now, pc, trace,
                 ret, alone>>

NextC30 == LoopBody \/ ReturnSubmissions

SpecC30 == InitC30 /\ [][NextC30]_vars

\* ----------------------------------------------------------------------- C30

\* Creator i fails the batch: it returns an error, or failOnSimErrors is set
\* and its simulation error is not empty.
C30_Fails(i) ==
  \/ applied.creators[i].err # NilErr
  \/ /\ applied.failOnSimErrors
     /\ applied.creators[i].txInfo.SimulationResult.SimulationError # ""

\* C30: the creators are invoked in list order, each at most once; the batch
\* stops at the first creator that returns an error or, with failOnSimErrors,
\* a simulation error, and returns an error and nil without invoking a later
\* creator; when no creator fails, every creator was invoked and the result is
\* one submission per creator, in the creators' order, each carrying its
\* creator's info with GasLimit equal to that info's SafeGasLimit.
C30_BatchCreate ==
  applied.fn = "BatchCreateTransactionSubmissions" =>
    LET n == Len(applied.creators)
        failing == {i \in 1..n : C30_Fails(i)}
        out == applied.out
    IN /\ \A k \in 1..Len(applied.invoked) : applied.invoked[k] = k
       /\ \A k \in 1..Len(applied.invoked) : \A i \in failing : k <= i
       /\ applied.stage = "returned" =>
            IF failing # {}
              THEN /\ out.err # NilErr
                   /\ out.isNil
                   /\ \E f \in failing : /\ \A i \in failing : f <= i
                                         /\ Len(applied.invoked) = f
              ELSE /\ out.err = NilErr
                   /\ ~out.isNil
                   /\ Len(applied.invoked) = n
                   /\ Len(out.txSubmissions) = n
                   /\ \A i \in 1..n :
                        /\ ~out.txSubmissions[i].isNil
                        /\ out.txSubmissions[i].TxInfo = applied.creators[i].txInfo
                        /\ out.txSubmissions[i].GasLimit
                             = applied.creators[i].txInfo.SimulationResult.SafeGasLimit

\* Three creators, the second of which fails its simulation while the third
\* would have returned an error: the batch returned an error after invoking
\* the first two.
C30_Witness ==
  /\ applied.fn = "BatchCreateTransactionSubmissions"
  /\ applied.stage = "returned"
  /\ Len(applied.creators) = 3
  /\ applied.failOnSimErrors
  /\ ~C30_Fails(1)
  /\ applied.creators[2].err = NilErr
  /\ C30_Fails(2)
  /\ applied.creators[3].err # NilErr
  /\ applied.invoked = <<1, 2>>
  /\ applied.out.isNil
  /\ applied.out.err # NilErr

====
